---------------------------- MODULE Spec2Model ----------------------------
(***************************************************************************)
(* Model of the velora-prop-validator distribution verification engine:    *)
(* merkle tree generation and proof verification (generator.ts), root      *)
(* verification and result assembly (verifier.ts) and payload              *)
(* normalisation (route.ts, parseDistributionData), and the validators     *)
(* (validators/amounts, validators/address, validators/distribution).      *)
(*                                                                         *)
(* Strings are modelled by what the code reads of them:                    *)
(*  - an amount string is a sequence of one-character strings;             *)
(*  - an address string is [id, form]: the 20-byte value it denotes and    *)
(*    how it is written ("lower": 0x + 40 lowercase hex digits, "mixed":   *)
(*    0x + 40 hex digits some uppercase, with the EIP-55 checksum,         *)
(*    "badsum": the same without it, "upper": 0x + 40 hex digits all       *)
(*    uppercase, "bare": 40 lowercase hex digits without 0x, "short": not  *)
(*    20 bytes long);                                                      *)
(*  - a root string is [digits, prefix, upper]: the 32-byte value, whether *)
(*    "0x" is written, and whether its hex letters are uppercase.          *)
(* keccak256 is modelled collision-free: the hash of a byte string is the  *)
(* byte string itself behind the negative of its length.                   *)
(*                                                                         *)
(* A payload given to parseDistributionData is a JSON value, a record with *)
(* a type field: null, a boolean, a number (as the text String() gives     *)
(* it), a string (its characters; an address is one symbol), a sequence,   *)
(* or an object (its keys in enumeration order and their values).          *)
(***************************************************************************)
EXTENDS Integers, Sequences, FiniteSets, TLC

VARIABLES
    byteOrder,      \* how keccak256 outputs compare byte-wise: "asc" or "desc"
    distribution,   \* generateMerkleTree: the entries of the last call
    format,         \* generateMerkleTree: the format of the last call
    merkleData,     \* generateMerkleTree: what the last call returned or threw
    proofCheck,     \* verifyProof: the last call and its result
    verification,   \* createVerificationResult: the last call and its outcome
    parsed,         \* parseDistributionData: the last call and its outcome
    amountCheck,    \* validateAmount: the last call and what it returned
    validation,     \* validators validateDistribution: the last call and what it returned
    response,       \* POST /api/verify: the last request and the response to it
    manager,        \* the IPFSGatewayManager and the fetch in progress
    inequality      \* the last call of calculateGiniCoefficient

vars == <<byteOrder, distribution, format, merkleData, proofCheck, verification, parsed, amountCheck, validation, response, manager, inequality>>

---------------------------------------------------------------------------
(* Bounds of the model *)

\* longest entry sequence drawn entry by entry
MaxLen == 2
\* longest entry sequence of the regular family (one entry per address)
MaxEntries == 11
\* number of distinct 20-byte address values drawn entry by entry
NumAddr == 2

\* detectMerkleFormat samples sampleData.slice(0, 10)
SampleSize == 10

\* index?: number left out
Undefined == -1

---------------------------------------------------------------------------
(* Strings *)

Min(S) == CHOOSE x \in S : \A y \in S : x <= y

Formats == <<"openzeppelin", "uniswap", "custom">>
FormatSet == {Formats[i] : i \in 1..Len(Formats)}

\* String.prototype.toLowerCase on an address string
addressToLowerCase(a) ==
    [id |-> a.id,
     form |-> IF a.form \in {"mixed", "badsum", "upper"} THEN "lower" ELSE a.form]

\* String.prototype.toLowerCase on a root string. A root whose 64 hex digits
\* hold no letter is not modelled.
rootToLowerCase(r) == [digits |-> r.digits, prefix |-> r.prefix, upper |-> FALSE]

DecDigits == <<"0", "1", "2", "3", "4", "5", "6", "7", "8", "9">>
HexDigits == DecDigits \o <<"a", "b", "c", "d", "e", "f">>

IsDigitOf(c, digits) == \E k \in 1..Len(digits) : digits[k] = c
DigitValue(c, digits) == (CHOOSE k \in 1..Len(digits) : digits[k] = c) - 1

RECURSIVE DigitsValue(_, _)
DigitsValue(s, digits) ==
    IF s = <<>> THEN 0
    ELSE DigitsValue(SubSeq(s, 1, Len(s) - 1), digits) * Len(digits)
         + DigitValue(s[Len(s)], digits)

AllDigits(s, digits) == \A k \in 1..Len(s) : IsDigitOf(s[k], digits)

\* BigInt(string): decimal digits with an optional sign, or 0x and hex digits;
\* the empty string is 0n; anything else is a SyntaxError.
BigIntOf(s) ==
    IF s = <<>> THEN [ok |-> TRUE, value |-> 0]
    ELSE IF Len(s) > 2 /\ s[1] = "0" /\ s[2] = "x" /\ AllDigits(SubSeq(s, 3, Len(s)), HexDigits)
        THEN [ok |-> TRUE, value |-> DigitsValue(SubSeq(s, 3, Len(s)), HexDigits)]
    ELSE IF AllDigits(s, DecDigits)
        THEN [ok |-> TRUE, value |-> DigitsValue(s, DecDigits)]
    ELSE IF Len(s) > 1 /\ s[1] = "-" /\ AllDigits(Tail(s), DecDigits)
        THEN [ok |-> TRUE, value |-> 0 - DigitsValue(Tail(s), DecDigits)]
    ELSE [ok |-> FALSE, value |-> 0]

Includes(s, c) == \E k \in 1..Len(s) : s[k] = c

---------------------------------------------------------------------------
(* ethers: keccak256, AbiCoder.encode, solidityPackedKeccak256 *)

\* The hash of a byte string is the byte string behind the negative of its
\* length: distinct byte strings have distinct hashes, a hash differs from
\* every encoding (whose words are not negative), and the concatenation of
\* two hashes splits in one way only.
keccak256(bytes) == <<0 - Len(bytes)>> \o bytes

LexLess(a, b) ==
    LET n == IF Len(a) < Len(b) THEN Len(a) ELSE Len(b)
        diff == {k \in 1..n : a[k] # b[k]}
    IN  IF diff = {} THEN Len(a) < Len(b) ELSE a[Min(diff)] < b[Min(diff)]

\* byte-wise comparison of two hashes (Buffer.compare, and < on lowercase hex)
HashLess(a, b) == IF byteOrder = "asc" THEN LexLess(a, b) ELSE LexLess(b, a)

\* ethers getAddress: 40 hex digits, with or without 0x; lowercase input has
\* no checksum to fail
AddressEncodable(a) == a.form \in {"lower", "bare"}

\* ethers getBigInt on a string, then the uint256 range check
Uint256Of(s) ==
    IF s = <<>> THEN [ok |-> FALSE, value |-> 0]
    ELSE LET b == BigIntOf(s) IN [ok |-> b.ok /\ b.value >= 0, value |-> b.value]

\* the 12 zero bytes abi.encode writes before an address
Pad == 0

\* AbiCoder.encode(['address', 'uint256'], [address, amount])
abiEncodeAddressAmount(address, amount) ==
    LET v == Uint256Of(amount)
    IN  [ok |-> AddressEncodable(address) /\ v.ok,
         bytes |-> <<Pad, address.id, v.value>>]

\* AbiCoder.encode(['uint256', 'address', 'uint256'], [index, address, amount])
abiEncodeIndexAddressAmount(index, address, amount) ==
    LET v == Uint256Of(amount)
    IN  [ok |-> index >= 0 /\ AddressEncodable(address) /\ v.ok,
         bytes |-> <<index, Pad, address.id, v.value>>]

\* the bytes solidityPackedKeccak256(['address', 'uint256'], ...) hashes
solidityPacked(address, amount) ==
    LET v == Uint256Of(amount)
    IN  [ok |-> AddressEncodable(address) /\ v.ok,
         bytes |-> <<address.id, v.value>>]

---------------------------------------------------------------------------
(* generator.ts *)

\* an encoding that throws makes generateLeaf throw: ok is FALSE
generateLeaf(item, index, fmt) ==
    LET address == addressToLowerCase(item.address)
        amount == item.amount
        enc == CASE fmt = "openzeppelin" -> abiEncodeAddressAmount(address, amount)
                 [] fmt = "uniswap" -> abiEncodeIndexAddressAmount(index, address, amount)
                 [] OTHER -> solidityPacked(address, amount)
    IN  [ok |-> enc.ok,
         hash |-> IF fmt = "openzeppelin" THEN keccak256(keccak256(enc.bytes))
                  ELSE keccak256(enc.bytes)]

\* merkletreejs with sortPairs: the pair is sorted with Buffer.compare, then
\* concatenated and hashed
hashPair(left, right) ==
    keccak256(IF HashLess(right, left) THEN right \o left ELSE left \o right)

\* merkletreejs: one level up, pair by pair; a lone last node is carried up
\* unchanged
RECURSIVE nextLayer(_)
nextLayer(nodes) ==
    IF Len(nodes) = 0 THEN <<>>
    ELSE IF Len(nodes) = 1 THEN <<nodes[1]>>
    ELSE <<hashPair(nodes[1], nodes[2])>> \o nextLayer(SubSeq(nodes, 3, Len(nodes)))

\* merkletreejs: the layers from the leaves to the root
RECURSIVE createLayers(_)
createLayers(nodes) ==
    IF Len(nodes) <= 1 THEN <<nodes>>
    ELSE <<nodes>> \o createLayers(nextLayer(nodes))

\* merkletreejs getProof from the leaf's position (0-based) in the layer
RECURSIVE proofFrom(_, _, _)
proofFrom(layers, level, index) ==
    IF level > Len(layers) THEN <<>>
    ELSE LET pairIndex == IF index % 2 = 1 THEN index - 1 ELSE index + 1
             here == IF pairIndex < Len(layers[level])
                     THEN <<layers[level][pairIndex + 1]>> ELSE <<>>
         IN  here \o proofFrom(layers, level + 1, index \div 2)

\* merkletreejs getHexProof(leaf): the leaf is looked up by value, the first
\* position holding it is used
getHexProof(layers, leaf) ==
    LET leaves == layers[1]
        at == Min({k \in 1..Len(leaves) : leaves[k] = leaf})
    IN  proofFrom(layers, 1, at - 1)

\* merkletreejs getHexRoot: 0x and lowercase hex digits
getHexRoot(layers) ==
    [digits |-> layers[Len(layers)][1], prefix |-> TRUE, upper |-> FALSE]

NoTree == [status |-> "none", root |-> <<>>, leaves |-> <<>>, proofs |-> <<>>]
Thrown == [status |-> "thrown", root |-> <<>>, leaves |-> <<>>, proofs |-> <<>>]

\* the last position of a key in the entries: Map.set overwrites
LastWithKey(dist, key) ==
    CHOOSE k \in 1..Len(dist) :
        /\ addressToLowerCase(dist[k].address) = key
        /\ \A j \in (k + 1)..Len(dist) : addressToLowerCase(dist[j].address) # key

\* distribution.map((item, index) => generateLeaf(item, index, format)),
\* from position `from` on
RECURSIVE generateLeaves(_, _, _)
generateLeaves(dist, from, fmt) ==
    IF from > Len(dist) THEN <<>>
    ELSE <<generateLeaf(dist[from], from - 1, fmt)>> \o generateLeaves(dist, from + 1, fmt)

generateMerkleTree(dist, fmt) ==
    IF Len(dist) = 0 THEN Thrown
    ELSE LET made == generateLeaves(dist, 1, fmt)
         IN  IF \E k \in 1..Len(dist) : ~made[k].ok THEN Thrown
             ELSE LET leaves == [k \in 1..Len(dist) |-> made[k].hash]
                      layers == createLayers(leaves)
                      keys == {addressToLowerCase(dist[k].address) : k \in 1..Len(dist)}
                  IN  [status |-> "built",
                       root |-> getHexRoot(layers),
                       leaves |-> leaves,
                       proofs |-> [key \in keys |->
                                     getHexProof(layers, leaves[LastWithKey(dist, key)])]]

\* a fold that hashes the current hash before the proof element whatever
\* their order
RECURSIVE reconstructInOrder(_, _)
reconstructInOrder(computedHash, proof) ==
    IF proof = <<>> THEN computedHash
    ELSE reconstructInOrder(keccak256(computedHash \o Head(proof)), Tail(proof))

\* the fold of verifyProof over the proof elements
RECURSIVE reconstruct(_, _)
reconstruct(computedHash, proof) ==
    IF proof = <<>> THEN computedHash
    ELSE reconstruct(
            IF HashLess(computedHash, Head(proof))
            THEN keccak256(computedHash \o Head(proof))
            ELSE keccak256(Head(proof) \o computedHash),
            Tail(proof))

\* verifyProof(address, amount, proof, root, format, index); keccak256 returns
\* 0x and lowercase digits. thrown: generateLeaf threw.
verifyProof(address, amount, proof, root, fmt, index) ==
    LET item == [address |-> address, amount |-> amount, index |-> index]
        leaf == generateLeaf(item, IF index = Undefined THEN 0 ELSE index, fmt)
        computed == [digits |-> reconstruct(leaf.hash, proof), prefix |-> TRUE, upper |-> FALSE]
    IN  [thrown |-> ~leaf.ok,
         result |-> leaf.ok /\ rootToLowerCase(computed) = rootToLowerCase(root)]

\* sampleData.slice(0, 10)
Slice(s, n) == SubSeq(s, 1, IF Len(s) < n THEN Len(s) ELSE n)

NoFormat == "null"

\* detectMerkleFormat: the first format, in the order of Formats, whose sample
\* tree has the expected root; a trial that throws is skipped
\* the comparison of the sample root without toLowerCase()
sampleRootMatchesExact(tree, expectedRoot) ==
    tree.status = "built" /\ tree.root = expectedRoot

\* tree.root.toLowerCase() === expectedRoot.toLowerCase(), of a tree that
\* was built
sampleRootMatches(tree, expectedRoot) ==
    tree.status = "built" /\ rootToLowerCase(tree.root) = rootToLowerCase(expectedRoot)

RECURSIVE detectFrom(_, _, _)
detectFrom(k, sampleData, expectedRoot) ==
    IF k > Len(Formats) THEN NoFormat
    ELSE IF sampleRootMatches(
                generateMerkleTree(Slice(sampleData, SampleSize), Formats[k]),
                expectedRoot)
    THEN Formats[k]
    ELSE detectFrom(k + 1, sampleData, expectedRoot)

detectMerkleFormat(sampleData, expectedRoot) == detectFrom(1, sampleData, expectedRoot)

---------------------------------------------------------------------------
(* verifier.ts *)

\* BigInt.prototype.toString
RECURSIVE NatToString(_)
NatToString(n) ==
    IF n < 10 THEN <<DecDigits[n + 1]>>
    ELSE Append(NatToString(n \div 10), DecDigits[(n % 10) + 1])

BigIntToString(n) == IF n < 0 THEN <<"-">> \o NatToString(0 - n) ELSE NatToString(n)

NoDetails == [text |-> "none", format |-> NoFormat, expected |-> <<>>, computed |-> <<>>]

\* lines 26-40 of verifyMerkleRoot, on the tree generateMerkleTree gave.
\* thrown: generateMerkleTree threw.
compareRoots(tree, expectedRoot, detectedFormat) ==
    IF tree.status # "built"
    THEN [thrown |-> TRUE, success |-> FALSE, computedRoot |-> <<>>,
          format |-> detectedFormat, details |-> NoDetails]
    ELSE IF rootToLowerCase(tree.root) = rootToLowerCase(expectedRoot)
    THEN [thrown |-> FALSE, success |-> TRUE, computedRoot |-> tree.root,
          format |-> detectedFormat,
          details |-> [text |-> "verified", format |-> detectedFormat,
                       expected |-> <<>>, computed |-> <<>>]]
    ELSE [thrown |-> FALSE, success |-> FALSE, computedRoot |-> tree.root,
          format |-> detectedFormat,
          details |-> [text |-> "mismatch", format |-> NoFormat,
                       expected |-> expectedRoot, computed |-> tree.root]]

\* detectMerkleFormat(distribution, expectedRoot) || 'custom'
orCustom(detected) == IF detected = NoFormat THEN "custom" ELSE detected

\* lines 19-24 of verifyMerkleRoot; format NoFormat is the argument left out
detectedFormatOf(dist, expectedRoot, fmt) ==
    IF fmt = NoFormat THEN orCustom(detectMerkleFormat(dist, expectedRoot)) ELSE fmt

verifyWithFormat(dist, expectedRoot, detectedFormat) ==
    compareRoots(generateMerkleTree(dist, detectedFormat), expectedRoot, detectedFormat)

\* verifyMerkleRoot(distribution, expectedRoot, format)
verifyMerkleRoot(dist, expectedRoot, fmt) ==
    verifyWithFormat(dist, expectedRoot, detectedFormatOf(dist, expectedRoot, fmt))

\* /^0x[a-fA-F0-9]{40}$/
isValidAddress(address) == address.form \in {"lower", "mixed", "badsum", "upper"}

\* the filter of check 3: TRUE for an amount counted invalid
isInvalidAmount(amount) ==
    IF amount = <<>> THEN TRUE
    ELSE IF Includes(amount, ".") \/ Includes(amount, "e") \/ Includes(amount, "E") THEN TRUE
    ELSE LET b == BigIntOf(amount) IN IF b.ok THEN b.value < 0 ELSE TRUE

\* one step of the totalAmount reduce
addAmount(sum, amount) ==
    LET amountStr == IF amount = <<>> THEN <<"0">> ELSE amount
    IN  IF Includes(amountStr, ".") \/ Includes(amountStr, "e") \/ Includes(amountStr, "E")
        THEN sum
        ELSE LET b == BigIntOf(amountStr) IN IF b.ok THEN sum + b.value ELSE sum

RECURSIVE totalAmountOf(_)
totalAmountOf(dist) ==
    IF dist = <<>> THEN 0
    ELSE addAmount(totalAmountOf(SubSeq(dist, 1, Len(dist) - 1)), dist[Len(dist)].amount)

\* distribution.filter(d => !isValidAddress(d.address)).length
invalidAddressesOf(dist) ==
    Cardinality({k \in 1..Len(dist) : ~isValidAddress(dist[k].address)})

\* distribution.filter(d => <the amount is invalid>).length
invalidAmountsOf(dist) ==
    Cardinality({k \in 1..Len(dist) : isInvalidAmount(dist[k].amount)})

\* the entries of addressCounts whose count exceeds 1
duplicatesOf(dist) ==
    {key \in {addressToLowerCase(dist[k].address) : k \in 1..Len(dist)} :
        Cardinality({k \in 1..Len(dist) : addressToLowerCase(dist[k].address) = key}) > 1}

Check(name, status, severity, count) ==
    [name |-> name, status |-> status, severity |-> severity, count |-> count]

\* validateDistribution of verifier.ts: the five checks, in order. count is
\* the number the check's details give.
validateDistribution(dist) ==
    LET invalidAddresses == invalidAddressesOf(dist)
        invalidAmounts == invalidAmountsOf(dist)
        duplicates == duplicatesOf(dist)
    IN  << Check("Distribution Not Empty",
                 IF Len(dist) > 0 THEN "passed" ELSE "failed", "critical", Len(dist)),
           Check("Address Validation",
                 IF invalidAddresses = 0 THEN "passed" ELSE "failed", "critical",
                 invalidAddresses),
           Check("Amount Validation",
                 IF invalidAmounts = 0 THEN "passed" ELSE "failed", "critical",
                 invalidAmounts),
           Check("Duplicate Check",
                 IF duplicates = {} THEN "passed" ELSE "warning",
                 IF duplicates # {} THEN "medium" ELSE "low",
                 Cardinality(duplicates)),
           Check("Total Distribution", "passed", "low", totalAmountOf(dist)) >>

\* c.name.toUpperCase().replace(/\s+/g, '_') on the names validateDistribution gives
warningCode(name) ==
    CASE name = "Distribution Not Empty" -> "DISTRIBUTION_NOT_EMPTY"
      [] name = "Address Validation" -> "ADDRESS_VALIDATION"
      [] name = "Amount Validation" -> "AMOUNT_VALIDATION"
      [] name = "Duplicate Check" -> "DUPLICATE_CHECK"
      [] name = "Total Distribution" -> "TOTAL_DISTRIBUTION"

NoResult ==
    [success |-> FALSE,
     merkleRoot |-> [expected |-> <<>>, computed |-> <<>>, match |-> FALSE],
     checks |-> <<>>, errors |-> <<>>, warnings |-> <<>>,
     metadata |-> [recipientCount |-> 0, totalAmount |-> <<>>]]

\* result.warnings: the checks of status 'warning', mapped
warningsOf(warned) ==
    [k \in 1..Len(warned) |->
        [code |-> warningCode(warned[k].name), message |-> warned[k].count]]

\* assembleResult with success taken from the root comparison alone
assembleResultMatchOnly(merkleVerification, checks, dist, expectedRoot) ==
    [success |-> merkleVerification.success,
     merkleRoot |-> [expected |-> expectedRoot,
                     computed |-> merkleVerification.computedRoot,
                     match |-> merkleVerification.success],
     checks |-> checks,
     errors |-> IF merkleVerification.success THEN <<>>
                ELSE <<[code |-> "MERKLE_ROOT_MISMATCH",
                        message |-> merkleVerification.details]>>,
     warnings |-> warningsOf(SelectSeq(checks, LAMBDA c : c.status = "warning")),
     metadata |-> [recipientCount |-> Len(dist),
                   totalAmount |-> BigIntToString(totalAmountOf(dist))]]

\* assembleResult with the mismatch error pushed whatever the comparison gave
assembleResultErrorAlways(merkleVerification, checks, dist, expectedRoot) ==
    [success |-> merkleVerification.success
                 /\ \A k \in 1..Len(checks) : checks[k].status # "failed",
     merkleRoot |-> [expected |-> expectedRoot,
                     computed |-> merkleVerification.computedRoot,
                     match |-> merkleVerification.success],
     checks |-> checks,
     errors |-> <<[code |-> "MERKLE_ROOT_MISMATCH",
                   message |-> merkleVerification.details]>>,
     warnings |-> warningsOf(SelectSeq(checks, LAMBDA c : c.status = "warning")),
     metadata |-> [recipientCount |-> Len(dist),
                   totalAmount |-> BigIntToString(totalAmountOf(dist))]]

\* lines 194-222 of createVerificationResult
assembleResult(merkleVerification, checks, dist, expectedRoot) ==
    [success |-> merkleVerification.success
                 /\ \A k \in 1..Len(checks) : checks[k].status # "failed",
     merkleRoot |-> [expected |-> expectedRoot,
                     computed |-> merkleVerification.computedRoot,
                     match |-> merkleVerification.success],
     checks |-> checks,
     errors |-> IF merkleVerification.success THEN <<>>
                ELSE <<[code |-> "MERKLE_ROOT_MISMATCH",
                        message |-> merkleVerification.details]>>,
     warnings |-> warningsOf(SelectSeq(checks, LAMBDA c : c.status = "warning")),
     metadata |-> [recipientCount |-> Len(dist),
                   totalAmount |-> BigIntToString(totalAmountOf(dist))]]

\* what verifyMerkleRoot throws, createVerificationResult throws on
resultOrThrow(merkleVerification, dist, expectedRoot) ==
    IF merkleVerification.thrown THEN [thrown |-> TRUE, result |-> NoResult]
    ELSE [thrown |-> FALSE,
          result |-> assembleResult(merkleVerification, validateDistribution(dist),
                                    dist, expectedRoot)]

\* createVerificationResult(distribution, expectedRoot): verifyMerkleRoot is
\* awaited first, without a format
createVerificationResult(dist, expectedRoot) ==
    resultOrThrow(verifyMerkleRoot(dist, expectedRoot, NoFormat), dist, expectedRoot)

---------------------------------------------------------------------------
(* Inputs *)

Str1 == <<"1">>
Str2 == <<"2">>

Lower(i) == [id |-> i, form |-> "lower"]
Entry(address, amount, index) == [address |-> address, amount |-> amount, index |-> index]

\* sequences over S of length 0..n
RECURSIVE SeqsUpTo(_, _)
SeqsUpTo(S, n) ==
    IF n = 0 THEN {<<>>}
    ELSE LET shorter == SeqsUpTo(S, n - 1)
         IN  shorter \cup {Append(s, x) : s \in {t \in shorter : Len(t) = n - 1}, x \in S}

\* well-formed entries: an address may repeat, be written in mixed case, and
\* carry an explicit index
GoodAddresses == {Lower(i) : i \in 1..NumAddr} \cup {[id |-> 1, form |-> "mixed"]}
GoodAmounts == {Str1, Str2}
GoodEntries == {Entry(a, m, x) : a \in GoodAddresses, m \in GoodAmounts, x \in {Undefined, 1}}

\* one entry per address, all of one amount, no explicit index
Regular(n, amount) == [k \in 1..n |-> Entry(Lower(k), amount, Undefined)]
RegularDistributions == {Regular(n, m) : n \in 1..MaxEntries, m \in GoodAmounts}

MerkleInputs == SeqsUpTo(GoodEntries, MaxLen) \cup RegularDistributions

---------------------------------------------------------------------------
(* The merkle engine: generateMerkleTree, then verifyProof on its proofs *)

NoCheck == [entry |-> 0, amount |-> <<>>, thrown |-> FALSE, result |-> FALSE]
NoVerification == [status |-> "none"]
NoParse == [status |-> "none"]
NoAmountCheck == [status |-> "none"]
NoValidation == [status |-> "none"]
NoResponse == [status |-> "none"]
NoManager == [status |-> "none"]
NoInequality == [status |-> "none"]

Init ==
    /\ byteOrder \in {"asc", "desc"}
    /\ distribution = <<>>
    /\ format = "custom"
    /\ merkleData = NoTree
    /\ proofCheck = NoCheck
    /\ verification = NoVerification
    /\ parsed = NoParse
    /\ amountCheck = NoAmountCheck
    /\ validation = NoValidation
    /\ response = NoResponse
    /\ manager = NoManager
    /\ inequality = NoInequality

\* const merkleData = generateMerkleTree(distribution, format)
GenerateMerkleTree(dist, fmt) ==
    /\ merkleData.status = "none"
    /\ distribution' = dist
    /\ format' = fmt
    /\ merkleData' = generateMerkleTree(dist, fmt)
    /\ UNCHANGED <<byteOrder, proofCheck, verification, parsed, amountCheck, validation, response, manager, inequality>>

\* verifyProof(e.address, amount, proofs.get(e.address.toLowerCase()), root,
\* format, e.index) for the entry e at position k of the built tree
VerifyProof(k, amount) ==
    /\ merkleData.status = "built"
    /\ proofCheck.entry = 0
    /\ LET e == distribution[k]
           r == verifyProof(e.address, amount,
                            merkleData.proofs[addressToLowerCase(e.address)],
                            merkleData.root, format, e.index)
       IN  proofCheck' = [entry |-> k, amount |-> amount,
                          thrown |-> r.thrown, result |-> r.result]
    /\ UNCHANGED <<byteOrder, distribution, format, merkleData, verification, parsed, amountCheck, validation, response, manager, inequality>>

MerkleNext ==
    \/ \E dist \in MerkleInputs, fmt \in FormatSet : GenerateMerkleTree(dist, fmt)
    \/ \E k \in 1..Len(distribution), amount \in GoodAmounts : VerifyProof(k, amount)

MerkleSpec == Init /\ [][MerkleNext]_vars

---------------------------------------------------------------------------
(* The orchestrator: createVerificationResult *)

\* malformed entries: an address without 0x, an address that is not 20 bytes,
\* a negative, a fractional, a hexadecimal, an empty and a zero amount
OddEntries ==
    { Entry([id |-> 1, form |-> "bare"], Str1, Undefined),
      Entry([id |-> 1, form |-> "short"], Str1, Undefined),
      Entry(Lower(1), <<"-", "1">>, Undefined),
      Entry(Lower(1), <<"1", ".", "5">>, Undefined),
      Entry(Lower(1), <<"0", "x", "e">>, Undefined),
      Entry(Lower(1), <<>>, Undefined),
      Entry(Lower(1), <<"0">>, Undefined) }

VerifyEntries ==
    {Entry(a, m, Undefined) : a \in GoodAddresses, m \in GoodAmounts} \cup OddEntries

VerifyInputs == SeqsUpTo(VerifyEntries, MaxLen) \cup RegularDistributions

\* the ways a 32-byte value is written as an expected root
Written(digits) ==
    {[digits |-> digits, prefix |-> p, upper |-> u] : p \in BOOLEAN, u \in BOOLEAN}

\* 64 zeros hold no letter: one case only
ZeroRoot == [digits |-> <<0>>, prefix |-> TRUE, upper |-> FALSE]

\* the roots of the entries under each format, however written, and the zero root
WrittenRootOf(tree) == IF tree.status = "built" THEN Written(tree.root.digits) ELSE {}

ExpectedRoots(dist) ==
    UNION {WrittenRootOf(generateMerkleTree(dist, f)) : f \in FormatSet} \cup {ZeroRoot}

\* const result = await createVerificationResult(distribution, expectedRoot)
Outcome(r, dist, expectedRoot) ==
    [status |-> IF r.thrown THEN "thrown" ELSE "returned",
     distribution |-> dist,
     expectedRoot |-> expectedRoot,
     result |-> r.result]

CreateVerificationResult(dist, expectedRoot) ==
    /\ verification' = Outcome(createVerificationResult(dist, expectedRoot),
                               dist, expectedRoot)
    /\ UNCHANGED <<byteOrder, distribution, format, merkleData, proofCheck, parsed, amountCheck, validation, response, manager, inequality>>

\* one call per behaviour
VerifyNext ==
    /\ verification.status = "none"
    /\ \E dist \in VerifyInputs : \E expectedRoot \in ExpectedRoots(dist) :
            CreateVerificationResult(dist, expectedRoot)

VerifySpec == Init /\ [][VerifyNext]_vars

---------------------------------------------------------------------------
(* JSON payloads and the JavaScript conversions parseDistributionData uses *)

\* a payload value: what JSON.parse yields, and undefined for an absent property
JsNull == [type |-> "null"]
JsUndefined == [type |-> "undefined"]
Bool(b) == [type |-> "boolean", value |-> b]
\* a number, written as String() writes it
Num(text) == [type |-> "number", text |-> text]
\* a string, as its characters; a 20-byte address 0x... is one symbol
Str(chars) == [type |-> "string", chars |-> chars]
Arr(items) == [type |-> "array", items |-> items]
\* an object: its keys in enumeration order and their values
Obj(keys, vals) == [type |-> "object", keys |-> keys, vals |-> vals]

NaN == <<"N", "a", "N">>

IsNullish(v) == v.type \in {"null", "undefined"}

\* ToBoolean: what || and ! test
Truthy(v) ==
    CASE v.type \in {"null", "undefined"} -> FALSE
      [] v.type = "boolean" -> v.value
      [] v.type = "number" -> v.text \notin {<<"0">>, NaN}
      [] v.type = "string" -> v.chars # <<>>
      [] OTHER -> TRUE

\* typeof v
TypeOf(v) ==
    CASE v.type \in {"null", "array", "object"} -> "object"
      [] OTHER -> v.type

\* v[k] for a property name k that is not an array index, v not nullish
Get(v, k) ==
    IF v.type = "object" /\ \E i \in 1..Len(v.keys) : v.keys[i] = k
    THEN v.vals[CHOOSE i \in 1..Len(v.keys) : v.keys[i] = k]
    ELSE JsUndefined

\* Object.keys(v)
ObjectKeys(v) ==
    CASE v.type = "object" -> v.keys
      [] v.type = "array" -> [i \in 1..Len(v.items) |-> ToString(i - 1)]
      [] v.type = "string" -> [i \in 1..Len(v.chars) |-> ToString(i - 1)]
      [] OTHER -> <<>>

\* Object.values(v), in the order of Object.keys(v)
ObjectValues(v) ==
    CASE v.type = "object" -> v.vals
      [] v.type = "array" -> v.items
      [] v.type = "string" -> [i \in 1..Len(v.chars) |-> Str(<<v.chars[i]>>)]
      [] OTHER -> <<>>

\* a || b || ... : the first truthy operand, else the last one
RECURSIVE OrChain(_)
OrChain(values) ==
    IF Len(values) = 1 \/ Truthy(values[1]) THEN values[1]
    ELSE OrChain(Tail(values))

\* the values of the properties named, in order
Props(v, names) == [i \in 1..Len(names) |-> Get(v, names[i])]

\* String(v)
RECURSIVE StringOf(_)
RECURSIVE JoinFrom(_, _)
JoinFrom(items, k) ==
    IF k > Len(items) THEN <<>>
    ELSE (IF k > 1 THEN <<",">> ELSE <<>>)
         \o (IF IsNullish(items[k]) THEN <<>> ELSE StringOf(items[k]))
         \o JoinFrom(items, k + 1)
StringOf(v) ==
    CASE v.type = "null" -> <<"n", "u", "l", "l">>
      [] v.type = "undefined" -> <<"u", "n", "d", "e", "f", "i", "n", "e", "d">>
      [] v.type = "boolean" ->
            IF v.value THEN <<"t", "r", "u", "e">> ELSE <<"f", "a", "l", "s", "e">>
      [] v.type = "number" -> v.text
      [] v.type = "string" -> v.chars
      [] v.type = "array" -> JoinFrom(v.items, 1)
      [] OTHER -> <<"[", "o", "b", "j", "e", "c", "t", " ",
                    "O", "b", "j", "e", "c", "t", "]">>

\* amountStr.split('.')[0]
RECURSIVE BeforeDot(_)
BeforeDot(s) ==
    IF s = <<>> \/ s[1] = "." THEN <<>> ELSE <<s[1]>> \o BeforeDot(Tail(s))

\* position of the first e or E of s, 0 when there is none
ExponentMark(s) ==
    IF \E k \in 1..Len(s) : s[k] \in {"e", "E"}
    THEN Min({k \in 1..Len(s) : s[k] \in {"e", "E"}})
    ELSE 0

NotANumber == [nan |-> TRUE, neg |-> FALSE, mant |-> 0, exp |-> 0]

\* an optional sign and decimal digits, at least one
SignedDigits(s) ==
    IF s # <<>> /\ s[1] \in {"+", "-"}
    THEN [ok |-> Len(s) > 1 /\ AllDigits(Tail(s), DecDigits),
          neg |-> s[1] = "-", digits |-> Tail(s)]
    ELSE [ok |-> s # <<>> /\ AllDigits(s, DecDigits), neg |-> FALSE, digits |-> s]

UpperHex == <<"A", "B", "C", "D", "E", "F">>
\* the digits of a hexadecimal literal, letters in lower case
HexLower(s) ==
    [k \in 1..Len(s) |->
        IF IsDigitOf(s[k], UpperHex) THEN HexDigits[11 + DigitValue(s[k], UpperHex)]
        ELSE s[k]]

\* Number(s) for a string without '.': decimal digits with an optional sign and
\* an optional exponent, or 0x and hexadecimal digits; anything else is NaN.
\* The value is (-1)^neg * mant * 10^exp.
NumberOf(s) ==
    IF Len(s) > 2 /\ s[1] = "0" /\ s[2] \in {"x", "X"}
    THEN IF AllDigits(HexLower(SubSeq(s, 3, Len(s))), HexDigits)
         THEN [nan |-> FALSE, neg |-> FALSE,
               mant |-> DigitsValue(HexLower(SubSeq(s, 3, Len(s))), HexDigits),
               exp |-> 0]
         ELSE NotANumber
    ELSE LET e == ExponentMark(s)
             m == SignedDigits(IF e = 0 THEN s ELSE SubSeq(s, 1, e - 1))
             x == SignedDigits(IF e = 0 THEN <<"0">> ELSE SubSeq(s, e + 1, Len(s)))
         IN  IF m.ok /\ x.ok
             THEN [nan |-> FALSE, neg |-> m.neg,
                   mant |-> DigitsValue(m.digits, DecDigits),
                   exp |-> IF x.neg THEN 0 - DigitsValue(x.digits, DecDigits)
                           ELSE DigitsValue(x.digits, DecDigits)]
             ELSE NotANumber

Zeros(n) == [k \in 1..n |-> "0"]

RECURSIVE StripTrailingZeros(_)
StripTrailingZeros(s) ==
    IF Len(s) > 1 /\ s[Len(s)] = "0" THEN StripTrailingZeros(SubSeq(s, 1, Len(s) - 1))
    ELSE s

RECURSIVE Pow10(_)
Pow10(k) == IF k = 0 THEN 1 ELSE 10 * Pow10(k - 1)

\* Number.prototype.toString of an integer of more than 21 digits, given the
\* digits of its mantissa and its decimal exponent n: d.ddde+n, or Infinity
\* above the largest double
ExponentForm(digits, n) ==
    IF n > 308 \/ (n = 308 /\ DigitsValue(SubSeq(digits \o Zeros(4), 1, 5), DecDigits) >= 17977)
    THEN <<"I", "n", "f", "i", "n", "i", "t", "y">>
    ELSE <<digits[1]>>
         \o (IF Len(digits) > 1 THEN <<".">> \o Tail(digits) ELSE <<>>)
         \o <<"e", "+">> \o NatToString(n)

\* Math.floor(n).toString() of a number of at most 9 mantissa digits
FloorToString(n) ==
    IF n.nan THEN NaN
    ELSE IF n.mant = 0 THEN <<"0">>
    ELSE IF n.exp >= 0
         THEN (IF n.neg THEN <<"-">> ELSE <<>>)
              \o (IF Len(NatToString(n.mant)) + n.exp > 21
                  THEN ExponentForm(StripTrailingZeros(NatToString(n.mant)),
                                    Len(NatToString(n.mant)) + n.exp - 1)
                  ELSE NatToString(n.mant) \o Zeros(n.exp))
    ELSE LET whole == IF 0 - n.exp > 9 THEN 0 ELSE n.mant \div Pow10(0 - n.exp)
             exact == 0 - n.exp <= 9 /\ n.mant % Pow10(0 - n.exp) = 0
         IN  IF ~n.neg THEN NatToString(whole)
             ELSE IF exact THEN <<"-">> \o NatToString(whole)
             ELSE <<"-">> \o NatToString(whole + 1)

\* lines 330-351: the amount string of an entry
amountStrOf(amount) ==
    IF IsNullish(amount) THEN <<"0">>
    ELSE LET amountStr == StringOf(amount)
             cut == IF Includes(amountStr, ".")
                    THEN (IF BeforeDot(amountStr) = <<>> THEN <<"0">>
                          ELSE BeforeDot(amountStr))
                    ELSE amountStr
         IN  IF Includes(cut, "e") \/ Includes(cut, "E")
             THEN FloorToString(NumberOf(cut))
             ELSE cut

---------------------------------------------------------------------------
(* route.ts: parseDistributionData *)

\* the object keys of the model that are 0x and 40 hexadecimal digits
AddressKeys == {"0xA1", "0xa2", "0xB3"}

\* /^0x[a-fA-F0-9]{40}$/i.test(k)
looksLikeAddress(k) == k \in AddressKeys

AddressFields == <<"address", "recipient", "account", "wallet", "to">>
AmountFields == <<"amount", "value", "balance", "quantity", "tokens">>
ProofAddressFields == <<"user", "account", "address", "recipient">>
ProofAmountFields == <<"amount", "claimableAmount", "value", "balance">>

NoError == [name |-> "none", index |-> Undefined, fields |-> <<>>]
ParseError(name, index, fields) == [name |-> name, index |-> index, fields |-> fields]

\* the outcome of a call: the shapes applied from the payload inwards, and
\* the entries returned or the error thrown
ParseReturned(shape, entries) ==
    [status |-> "returned", shapes |-> <<shape>>, entries |-> entries, error |-> NoError]
ParseThrown(shapes, error) ==
    [status |-> "thrown", shapes |-> shapes, entries |-> <<>>, error |-> error]

\* return parseDistributionData(inner), from the branch of a shape
Unwrapped(shape, inner) == [inner EXCEPT !.shapes = <<shape>> \o @]

\* an entry; a field the object does not have is undefined
ParsedEntry(address, amount, index) ==
    [address |-> address, amount |-> amount, index |-> index,
     cumulativeClaimableAmount |-> JsUndefined,
     claimableAmount |-> JsUndefined,
     paraBoostScore |-> JsUndefined]

\* x.index !== undefined ? x.index : index
indexOr(x, index) ==
    IF Get(x, "index") # JsUndefined THEN Get(x, "index") ELSE Num(NatToString(index))

\* String(x) when x !== undefined, else the field is left out
stringIfDefined(x) == IF x # JsUndefined THEN Str(StringOf(x)) ELSE JsUndefined

\* Format 1, lines 320-358: what the map callback does on one item
arrayItemFault(item) ==
    IF IsNullish(item) THEN "TypeError"
    ELSE IF ~Truthy(OrChain(Props(item, AddressFields))) THEN "MissingAddress"
    ELSE "none"

arrayItemEntry(item, index) ==
    ParsedEntry(OrChain(Props(item, AddressFields)),
                amountStrOf(OrChain(Props(item, AmountFields))),
                indexOr(item, index))

\* the error of the first item the map callback throws on, given what the
\* callback does on each item
firstFault(items, faults) ==
    LET k == Min({j \in 1..Len(items) : faults[j] # "none"})
    IN  ParseError(faults[k], k - 1, ObjectKeys(items[k]))

\* parseArray keeping the entries before the first item that throws
parseArrayPartial(items) ==
    IF items = <<>> THEN ParseThrown(<<"array">>, ParseError("ArrayEmpty", Undefined, <<>>))
    ELSE IF \E j \in 1..Len(items) : arrayItemFault(items[j]) # "none"
         THEN ParseReturned("array",
                [k \in 1..(Min({j \in 1..Len(items) : arrayItemFault(items[j]) # "none"}) - 1) |->
                    arrayItemEntry(items[k], k - 1)])
    ELSE ParseReturned("array", [k \in 1..Len(items) |-> arrayItemEntry(items[k], k - 1)])

\* Format 1, lines 312-362
parseArray(items) ==
    IF items = <<>> THEN ParseThrown(<<"array">>, ParseError("ArrayEmpty", Undefined, <<>>))
    ELSE IF \E j \in 1..Len(items) : arrayItemFault(items[j]) # "none"
         THEN ParseThrown(<<"array">>, firstFault(items, [j \in 1..Len(items) |-> arrayItemFault(items[j])]))
    ELSE ParseReturned("array", [k \in 1..Len(items) |-> arrayItemEntry(items[k], k - 1)])

\* Format 2, lines 365-372
claimFault(claim) == IF IsNullish(claim) THEN "TypeError" ELSE "none"

claimEntry(address, claim, idx) ==
    ParsedEntry(Str(<<address>>),
                StringOf(OrChain(<<Get(claim, "amount"), claim>>)),
                indexOr(claim, idx))

parseClaims(claims) ==
    IF \E j \in 1..Len(ObjectValues(claims)) : claimFault(ObjectValues(claims)[j]) # "none"
    THEN ParseThrown(<<"claims">>, firstFault(ObjectValues(claims),
                [j \in 1..Len(ObjectValues(claims)) |-> claimFault(ObjectValues(claims)[j])]))
    ELSE ParseReturned("claims",
            [k \in 1..Len(ObjectKeys(claims)) |->
                claimEntry(ObjectKeys(claims)[k], ObjectValues(claims)[k], k - 1)])

\* Format 4, lines 394-486
isParaSwapRewards(proofs) ==
    /\ proofs # <<>>
    /\ Truthy(proofs[1])
    /\ Get(proofs[1], "cumulativeClaimableAmount") # JsUndefined

proofFault(proof) ==
    IF IsNullish(proof) THEN "TypeError"
    ELSE IF ~Truthy(OrChain(Props(proof, ProofAddressFields))) THEN "MissingProofAddress"
    ELSE "none"

proofAmount(proof, rewards) ==
    IF rewards /\ Get(proof, "cumulativeClaimableAmount") # JsUndefined
    THEN Get(proof, "cumulativeClaimableAmount")
    ELSE OrChain(Props(proof, ProofAmountFields))

proofEntry(proof, index, rewards) ==
    [address |-> OrChain(Props(proof, ProofAddressFields)),
     amount |-> amountStrOf(proofAmount(proof, rewards)),
     index |-> indexOr(proof, index),
     cumulativeClaimableAmount |-> stringIfDefined(Get(proof, "cumulativeClaimableAmount")),
     claimableAmount |-> stringIfDefined(Get(proof, "claimableAmount")),
     paraBoostScore |-> stringIfDefined(Get(proof, "paraBoostScore"))]

parseProofs(proofs) ==
    IF \E j \in 1..Len(proofs) : proofFault(proofs[j]) # "none"
    THEN ParseThrown(<<"proofs">>, firstFault(proofs, [j \in 1..Len(proofs) |-> proofFault(proofs[j])]))
    ELSE ParseReturned("proofs",
            [k \in 1..Len(proofs) |->
                proofEntry(proofs[k], k - 1, isParaSwapRewards(proofs))])

\* Format 6, lines 497-512
looksLikeAddresses(keys) ==
    /\ Len(keys) > 0
    /\ 2 * Cardinality({k \in 1..Len(keys) : looksLikeAddress(keys[k])}) > Len(keys)

parseMapping(data) ==
    ParseReturned("mapping",
        [k \in 1..Len(data.keys) |->
            ParsedEntry(Str(<<data.keys[k]>>), StringOf(data.vals[k]),
                        Num(NatToString(k - 1)))])

\* x && typeof x === 'object'
isObjectValue(x) == Truthy(x) /\ TypeOf(x) = "object"

\* data.recipients || data.claims || data.distribution || data.proofs
distDataOf(data) == OrChain(Props(data, <<"recipients", "claims", "distribution", "proofs">>))

\* lines 306-522
RECURSIVE parseDistributionData(_)
parseDistributionData(data) ==
    IF data.type = "array" THEN parseArray(data.items)
    ELSE IF IsNullish(data)
        THEN ParseThrown(<<>>, ParseError("TypeError", Undefined, <<>>))
    ELSE IF isObjectValue(Get(data, "claims"))
        THEN parseClaims(Get(data, "claims"))
    ELSE IF isObjectValue(Get(data, "recipients"))
        THEN Unwrapped("recipients", parseDistributionData(Get(data, "recipients")))
    ELSE IF isObjectValue(Get(data, "distribution"))
        THEN Unwrapped("distribution", parseDistributionData(Get(data, "distribution")))
    ELSE IF Truthy(Get(data, "proofs")) /\ Get(data, "proofs").type = "array"
        THEN parseProofs(Get(data, "proofs").items)
    ELSE IF Truthy(Get(data, "merkleRoot")) /\ Truthy(distDataOf(data))
        THEN Unwrapped("wrapper", parseDistributionData(distDataOf(data)))
    ELSE IF TypeOf(data) = "object" /\ looksLikeAddresses(ObjectKeys(data))
        THEN parseMapping(data)
    ELSE IF TypeOf(data) = "object" /\ Len(ObjectKeys(data)) < 5
        THEN ParseThrown(<<>>, ParseError("NotDistributionData", Undefined, ObjectKeys(data)))
    ELSE ParseThrown(<<>>, ParseError("UnsupportedFormat", Undefined, <<TypeOf(data)>>))

---------------------------------------------------------------------------
(* The normalizer: one call of parseDistributionData on a fetched payload *)

Text(chars) == Str(chars)
AddressText(k) == Str(<<k>>)
Five == Text(<<"5">>)
Seven == Text(<<"7">>)

\* elements of a sequence payload: records with and without an address-like
\* field, with an empty or null one, with and without an amount, with a
\* decimal, an exponent (alone, after a fraction, of more than 21 digits) and
\* an empty string for amount; null and a number
WellFormedItems ==
    { Obj(<<"address", "amount">>, <<AddressText("0xA1"), Five>>),
      Obj(<<"recipient", "value", "index">>, <<AddressText("0xa2"), Seven, Num(<<"3">>)>>),
      Obj(<<"address", "to", "amount", "value">>,
          <<Text(<<>>), AddressText("0xA1"), Num(<<"0">>), Seven>>),
      Obj(<<"wallet", "amount">>, <<AddressText("0xB3"), Num(<<"1", ".", "5">>)>>),
      Obj(<<"account", "tokens">>, <<AddressText("0xa2"), Text(<<"2", "e", "3">>)>>),
      Obj(<<"address", "amount">>, <<AddressText("0xB3"), Text(<<"1", ".", "5">>)>>),
      Obj(<<"wallet", "tokens">>, <<AddressText("0xA1"), Text(<<>>)>>),
      Obj(<<"address", "amount">>, <<AddressText("0xa2"), Text(<<"1", ".", "5", "e", "3">>)>>),
      Obj(<<"to", "value">>, <<AddressText("0xB3"), Text(<<"1", "e", "2", "2">>)>>),
      Obj(<<"address">>, <<AddressText("0xA1")>>) }

AddresslessItems ==
    { Obj(<<"amount">>, <<Five>>),
      Obj(<<"user", "amount", "index">>, <<AddressText("0xA1"), Five, Num(<<"0">>)>>),
      Obj(<<>>, <<>>),
      Obj(<<"address", "amount">>, <<Text(<<>>), Five>>),
      Obj(<<"address", "recipient">>, <<JsNull, Num(<<"0">>)>>) }

Items == WellFormedItems \cup AddresslessItems \cup {JsNull, Num(<<"5">>)}

ArrayPayloads == {Arr(items) : items \in SeqsUpTo(Items, MaxLen)}

\* the values a payload holds under claims
ClaimsValues ==
    { JsUndefined,
      Obj(<<"0xA1", "0xa2">>,
          <<Obj(<<"amount">>, <<Five>>),
            Obj(<<"amount", "index">>, <<Num(<<"0">>), Num(<<"0">>)>>)>>),
      Obj(<<"0xB3", "0xA1">>,
          <<Obj(<<"amount", "index">>, <<Seven, Num(<<"0">>)>>),
            Obj(<<"amount">>, <<Num(<<"1", ".", "5">>)>>)>>),
      Obj(<<"0xA1", "0xa2">>, <<Five, JsNull>>),
      Arr(<<Seven>>),
      Text(<<"x">>) }

\* ... under recipients
RecipientsValues ==
    { JsUndefined,
      JsNull,
      Arr(<<Obj(<<"address", "amount">>, <<AddressText("0xA1"), Five>>)>>),
      Arr(<<>>),
      Obj(<<"0xA1">>, <<Five>>) }

\* ... under distribution
DistributionValues ==
    { JsUndefined,
      Arr(<<Obj(<<"to">>, <<AddressText("0xB3")>>), Obj(<<"amount">>, <<Five>>)>>),
      Obj(<<"claims">>, <<Obj(<<"0xB3">>, <<Seven>>)>>) }

\* ... under proofs
ProofsValues ==
    { JsUndefined,
      Arr(<<Obj(<<"user", "amount">>, <<AddressText("0xA1"), Five>>)>>),
      Arr(<<Obj(<<"account", "cumulativeClaimableAmount", "claimableAmount", "amount">>,
                <<AddressText("0xa2"), Text(<<"9">>), Text(<<"4">>), Text(<<"1">>)>>),
            Obj(<<"user", "amount">>, <<AddressText("0xA1"), Text(<<"1", ".", "5">>)>>)>>),
      Arr(<<Obj(<<"user">>, <<AddressText("0xA1")>>), Obj(<<"amount">>, <<Five>>)>>),
      Arr(<<JsNull>>),
      Arr(<<>>),
      Obj(<<"0xA1", "0xa2">>, <<Five, Seven>>) }

\* ... under merkleRoot
MerkleRootValues == {JsUndefined, Text(<<"0xroot">>)}

\* the properties of an object literal whose value is not undefined
RECURSIVE Defined(_, _)
Defined(keys, vals) ==
    IF keys = <<>> THEN Obj(<<>>, <<>>)
    ELSE LET rest == Defined(Tail(keys), Tail(vals))
         IN  IF Head(vals) = JsUndefined THEN rest
             ELSE Obj(<<Head(keys)>> \o rest.keys, <<Head(vals)>> \o rest.vals)

\* records holding any of merkleRoot, claims, recipients, distribution, proofs
ContainerPayloads ==
    { Defined(<<"merkleRoot", "claims", "recipients", "distribution", "proofs">>,
              <<m, c, r, d, p>>) :
        m \in MerkleRootValues, c \in ClaimsValues, r \in RecipientsValues,
        d \in DistributionValues, p \in ProofsValues }

\* flat records: address keys only, half of the keys, most of the keys, none
\* of five keys, address keys beside an empty container
MappingPayloads ==
    { Obj(<<"0xA1">>, <<Five>>),
      Obj(<<"0xA1", "0xa2">>, <<Num(<<"1", ".", "5">>), Text(<<"2", "e", "3">>)>>),
      Obj(<<"0xA1", "name">>, <<Five, Text(<<"x">>)>>),
      Obj(<<"0xA1", "name", "0xa2">>, <<Five, Text(<<"x">>), Seven>>),
      Obj(<<"a", "b", "c", "d", "e">>, <<Five, Five, Five, Five, Five>>),
      Obj(<<"0xA1", "0xa2", "recipients">>, <<Five, Seven, JsNull>>) }

\* payloads that are no record and no sequence
PrimitivePayloads == {JsNull, Text(<<"x">>), Text(<<>>), Num(<<"5">>), Bool(TRUE)}

Payloads == ArrayPayloads \cup ContainerPayloads \cup MappingPayloads \cup PrimitivePayloads

Parsed(data, r) ==
    [status |-> r.status, data |-> data, shapes |-> r.shapes,
     entries |-> r.entries, error |-> r.error]

\* distribution = parseDistributionData(distributionResponse.data)
ParseDistributionData(data) ==
    /\ parsed' = Parsed(data, parseDistributionData(data))
    /\ UNCHANGED <<byteOrder, distribution, format, merkleData, proofCheck, verification, amountCheck, validation, response, manager, inequality>>

\* one call per behaviour
ParseNext ==
    /\ parsed.status = "none"
    /\ \E data \in Payloads : ParseDistributionData(data)

ParseSpec == Init /\ [][ParseNext]_vars

---------------------------------------------------------------------------
(* validators/amounts: validateAmount *)

\* a bigint: its sign and its decimal digits, without leading zeros
RECURSIVE StripLeadingZeros(_)
StripLeadingZeros(s) ==
    IF Len(s) > 1 /\ s[1] = "0" THEN StripLeadingZeros(Tail(s))
    ELSE IF s = <<>> THEN <<"0">> ELSE s

BigOf(neg, digits) ==
    [neg |-> neg /\ StripLeadingZeros(digits) # <<"0">>,
     digits |-> StripLeadingZeros(digits)]

NoBig == [neg |-> FALSE, digits |-> <<>>]

\* a bigint value handed to validateAmount
BigIntValue(neg, digits) == [type |-> "bigint", big |-> BigOf(neg, digits)]

\* a < b for the digits of two naturals without leading zeros
DigitsLess(a, b) ==
    \/ Len(a) < Len(b)
    \/ /\ Len(a) = Len(b)
       /\ \E k \in 1..Len(a) :
             /\ DigitValue(a[k], DecDigits) < DigitValue(b[k], DecDigits)
             /\ \A j \in 1..(k - 1) : a[j] = b[j]

\* a <= 0n
NotPositive(a) == a.neg \/ a.digits = <<"0">>

\* a > b for a bigint a and a positive bigint b
Exceeds(a, b) == ~a.neg /\ DigitsLess(b.digits, a.digits)

\* position of the first '.' of s, 0 when there is none
DotMark(s) ==
    IF Includes(s, ".") THEN Min({k \in 1..Len(s) : s[k] = "."}) ELSE 0

\* the first n characters of a fraction, padded with zeros
PadFraction(frac, n) == SubSeq(frac \o Zeros(n), 1, n)

\* ethers parseUnits(value, decimals): an optional '-', digits, an optional
\* '.', digits, at least one digit in all; the digits after the first
\* `decimals` ones of the fraction must be zeros. ok is FALSE when it throws.
parseUnits(s, decimals) ==
    LET neg == s # <<>> /\ s[1] = "-"
        body == IF neg THEN Tail(s) ELSE s
        dot == DotMark(body)
        whole == IF dot = 0 THEN body ELSE SubSeq(body, 1, dot - 1)
        frac == IF dot = 0 THEN <<>> ELSE SubSeq(body, dot + 1, Len(body))
    IN  [ok |-> /\ AllDigits(whole, DecDigits)
                /\ AllDigits(frac, DecDigits)
                /\ Len(whole) + Len(frac) > 0
                /\ \A k \in (decimals + 1)..Len(frac) : frac[k] = "0",
         big |-> BigOf(neg, whole \o PadFraction(frac, decimals))]

\* ethers formatUnits(value, decimals): the value with `decimals` digits after
\* the point, trailing zeros dropped but for one
formatUnits(a, decimals) ==
    IF decimals = 0 THEN (IF a.neg THEN <<"-">> ELSE <<>>) \o a.digits
    ELSE LET padded == Zeros(decimals + 1 - Len(a.digits)) \o a.digits
             whole == SubSeq(padded, 1, Len(padded) - decimals)
             frac == SubSeq(padded, Len(padded) - decimals + 1, Len(padded))
         IN  (IF a.neg THEN <<"-">> ELSE <<>>)
             \o whole \o <<".">> \o StripTrailingZeros(frac)

\* /^\d+$/.test(amount)
IsWei(s) == s # <<>> /\ AllDigits(s, DecDigits)

\* lines 490-508: amountBigInt, or what stops the call before it has one
amountBigIntOf(amount, decimals) ==
    CASE amount.type = "bigint" -> [ok |-> TRUE, error |-> "none", big |-> amount.big]
      [] amount.type = "string" ->
            IF IsWei(amount.chars)
            THEN [ok |-> TRUE, error |-> "none", big |-> BigOf(FALSE, amount.chars)]
            ELSE [ok |-> parseUnits(amount.chars, decimals).ok,
                  error |-> "error.message",
                  big |-> parseUnits(amount.chars, decimals).big]
      [] amount.type = "number" ->
            [ok |-> parseUnits(amount.text, decimals).ok,
             error |-> "error.message",
             big |-> parseUnits(amount.text, decimals).big]
      [] OTHER -> [ok |-> FALSE, error |-> "Invalid amount type", big |-> NoBig]

\* parseUnits('1000000000000', decimals)
MAX_SUPPLY(decimals) == BigOf(FALSE, <<"1">> \o Zeros(12 + decimals))

AmountValidation(isValid, amount, formatted, error, warning) ==
    [isValid |-> isValid, amount |-> amount, formatted |-> formatted,
     error |-> error, warning |-> warning]

\* lines 510-540, on amountBigInt
validateBigInt(a, decimals) ==
    IF ~a.ok THEN AmountValidation(FALSE, NoBig, <<>>, a.error, "none")
    ELSE IF NotPositive(a.big)
        THEN AmountValidation(FALSE, a.big, <<>>, "Amount must be positive", "none")
    ELSE IF Exceeds(a.big, MAX_SUPPLY(decimals))
        THEN AmountValidation(TRUE, a.big, formatUnits(a.big, decimals), "none",
                              "Amount is unusually large")
    ELSE AmountValidation(TRUE, a.big, formatUnits(a.big, decimals), "none", "none")

\* validateAmount(amount, decimals), lines 483-541
validateAmount(amount, decimals) == validateBigInt(amountBigIntOf(amount, decimals), decimals)

---------------------------------------------------------------------------
(* The amount validator: one call of validateAmount *)

\* longest amount string drawn character by character
MaxChars == 3

AmountChars == {"0", "1", "5", ".", "-", "e"}

AmountStrings == SeqsUpTo(AmountChars, MaxChars)

\* amounts of one token and more, as wei and as a decimal, and amounts above
\* the 1 trillion token bound
LargeAmounts ==
    { Str(<<"1">> \o Zeros(18)), Str(<<"1">> \o Zeros(30)), Str(<<"1">> \o Zeros(31)),
      Str(<<"1">> \o Zeros(12) \o <<".", "5">>), Str(<<"1">> \o Zeros(13)) }

AmountInputs ==
    {Str(s) : s \in AmountStrings} \cup LargeAmounts
      \cup {Num(<<"1", ".", "5">>), Num(<<"0">>), Num(<<"5">>), Num(<<"1", "e", "+", "2", "1">>),
            BigIntValue(FALSE, <<"5">>), BigIntValue(TRUE, <<"5">>), BigIntValue(FALSE, <<"0">>),
            JsNull, Bool(TRUE)}

DecimalsInputs == {0, 1, 18}

ValidateAmount(amount, decimals) ==
    /\ amountCheck' = [status |-> "returned", amount |-> amount, decimals |-> decimals,
                       result |-> validateAmount(amount, decimals)]
    /\ UNCHANGED <<byteOrder, distribution, format, merkleData, proofCheck, verification, parsed, validation, response, manager, inequality>>

\* one call per behaviour
AmountNext ==
    /\ amountCheck.status = "none"
    /\ \E amount \in AmountInputs, decimals \in DecimalsInputs : ValidateAmount(amount, decimals)

AmountSpec == Init /\ [][AmountNext]_vars

---------------------------------------------------------------------------
(* validators/address *)

\* the addresses isProblematicContract knows: the null address, the
\* precompiled contracts 1 to 9 and the burn address. Their ids are not
\* positive; but for the burn address they are written with no hex letter.
NullAddress == Lower(0)
Precompiled(k) == Lower(0 - k)
BurnId == 0 - 10
Problematic == {NullAddress, Lower(BurnId)} \cup {Precompiled(k) : k \in 1..9}

\* ethers isAddress: 40 hex digits with or without 0x; digits of both cases
\* must carry the EIP-55 checksum
isAddress(address) == address.form \in {"lower", "upper", "mixed", "bare"}

\* address !== address.toLowerCase() && address !== address.toUpperCase():
\* toUpperCase turns 0x into 0X, so the second test holds for every address
\* written with 0x
hasChecksumOf(address) == address.form \in {"upper", "mixed"}

\* ethers getAddress(address.toLowerCase()): the checksummed writing, which
\* for an address without hex letters is the lowercase one
getAddress(address) ==
    [id |-> address.id,
     form |-> IF address.id > 0 \/ address.id = BurnId THEN "mixed" ELSE "lower"]

NoAddress == [id |-> 0, form |-> "none"]

validateAddress(address) ==
    IF ~isAddress(address)
    THEN [isValid |-> FALSE, hasChecksum |-> FALSE, normalized |-> NoAddress,
          error |-> "Invalid address format"]
    ELSE [isValid |-> TRUE, hasChecksum |-> hasChecksumOf(address),
          normalized |-> getAddress(address), error |-> "none"]

\* the three lists of validateAddressBatch
RECURSIVE validAddresses(_)
validAddresses(addresses) ==
    IF addresses = <<>> THEN <<>>
    ELSE (IF validateAddress(Head(addresses)).isValid
          THEN <<validateAddress(Head(addresses)).normalized>> ELSE <<>>)
         \o validAddresses(Tail(addresses))

RECURSIVE invalidAddresses(_)
invalidAddresses(addresses) ==
    IF addresses = <<>> THEN <<>>
    ELSE (IF ~validateAddress(Head(addresses)).isValid
          THEN <<[address |-> Head(addresses),
                  error |-> validateAddress(Head(addresses)).error]>>
          ELSE <<>>)
         \o invalidAddresses(Tail(addresses))

RECURSIVE addressWarnings(_)
addressWarnings(addresses) ==
    IF addresses = <<>> THEN <<>>
    ELSE (IF validateAddress(Head(addresses)).isValid
             /\ ~validateAddress(Head(addresses)).hasChecksum
          THEN <<[address |-> Head(addresses),
                  warning |-> "Address does not have valid checksum"]>>
          ELSE <<>>)
         \o addressWarnings(Tail(addresses))

validateAddressBatch(addresses) ==
    [valid |-> validAddresses(addresses),
     invalid |-> invalidAddresses(addresses),
     warnings |-> addressWarnings(addresses)]

\* findDuplicateAddresses: the lowercased addresses in order of first
\* occurrence, and the count of each that occurs more than once
appendUnique(before, normalized) ==
    IF \E k \in 1..Len(before) : before[k] = normalized THEN before
    ELSE Append(before, normalized)

RECURSIVE uniqueOf(_)
uniqueOf(addresses) ==
    IF addresses = <<>> THEN <<>>
    ELSE appendUnique(uniqueOf(SubSeq(addresses, 1, Len(addresses) - 1)),
                      addressToLowerCase(addresses[Len(addresses)]))

addressCount(addresses, normalized) ==
    Cardinality({k \in 1..Len(addresses) : addressToLowerCase(addresses[k]) = normalized})

findDuplicateAddresses(addresses) ==
    [duplicates |-> {[address |-> uniqueOf(addresses)[k],
                      count |-> addressCount(addresses, uniqueOf(addresses)[k])] :
                        k \in {j \in 1..Len(uniqueOf(addresses)) :
                                  addressCount(addresses, uniqueOf(addresses)[j]) > 1}},
     unique |-> uniqueOf(addresses)]

isProblematicContract(address) == addressToLowerCase(address) \in Problematic

\* a provider: the ids whose code is not '0x', and the ids getCode fails on
Provider(contracts, failing) ==
    [type |-> "provider", contracts |-> contracts, failing |-> failing]

NoProvider == [type |-> "undefined"]

\* detectContractAddresses: lowercased address -> isContract, false when
\* getCode fails or rejects the address
detectContractAddresses(addresses, provider) ==
    {[address |-> addressToLowerCase(addresses[k]),
      isContract |-> /\ isAddress(addresses[k])
                     /\ addresses[k].id \in provider.contracts
                     /\ addresses[k].id \notin provider.failing] :
        k \in 1..Len(addresses)}

---------------------------------------------------------------------------
(* validators/amounts: batches, statistics, outliers *)

\* the value of a bigint of the model's range
ValueOf(a) == IF a.neg THEN 0 - DigitsValue(a.digits, DecDigits)
              ELSE DigitsValue(a.digits, DecDigits)

BigOfValue(n) == IF n < 0 THEN BigOf(TRUE, NatToString(0 - n)) ELSE BigOf(FALSE, NatToString(n))

RECURSIVE Sum(_)
Sum(amounts) == IF amounts = <<>> THEN 0 ELSE Head(amounts) + Sum(Tail(amounts))

\* [...amounts].sort(ascending)
RECURSIVE InsertSorted(_, _)
InsertSorted(sorted, x) ==
    IF sorted = <<>> THEN <<x>>
    ELSE IF x <= Head(sorted) THEN <<x>> \o sorted
    ELSE <<Head(sorted)>> \o InsertSorted(Tail(sorted), x)

RECURSIVE SortAscending(_)
SortAscending(amounts) ==
    IF amounts = <<>> THEN <<>>
    ELSE InsertSorted(SortAscending(Tail(amounts)), Head(amounts))

SortDescending(amounts) ==
    [k \in 1..Len(amounts) |-> SortAscending(amounts)[Len(amounts) + 1 - k]]

\* the three lists of validateAmountBatch: a valid amount is pushed when its
\* bigint is truthy
RECURSIVE validAmounts(_, _)
validAmounts(amounts, decimals) ==
    IF amounts = <<>> THEN <<>>
    ELSE (IF validateAmount(Str(Head(amounts)), decimals).isValid
             /\ validateAmount(Str(Head(amounts)), decimals).amount.digits # <<"0">>
          THEN <<ValueOf(validateAmount(Str(Head(amounts)), decimals).amount)>>
          ELSE <<>>)
         \o validAmounts(Tail(amounts), decimals)

RECURSIVE invalidAmounts(_, _)
invalidAmounts(amounts, decimals) ==
    IF amounts = <<>> THEN <<>>
    ELSE (IF ~validateAmount(Str(Head(amounts)), decimals).isValid
          THEN <<[amount |-> Head(amounts),
                  error |-> validateAmount(Str(Head(amounts)), decimals).error]>>
          ELSE <<>>)
         \o invalidAmounts(Tail(amounts), decimals)

RECURSIVE amountWarnings(_, _)
amountWarnings(amounts, decimals) ==
    IF amounts = <<>> THEN <<>>
    ELSE (IF validateAmount(Str(Head(amounts)), decimals).isValid
             /\ validateAmount(Str(Head(amounts)), decimals).warning # "none"
          THEN <<[amount |-> Head(amounts),
                  warning |-> validateAmount(Str(Head(amounts)), decimals).warning]>>
          ELSE <<>>)
         \o amountWarnings(Tail(amounts), decimals)

\* approximateSquareRoot: Newton's iteration from x = value
RECURSIVE newtonFrom(_, _, _)
newtonFrom(x, y, value) ==
    IF y < x THEN newtonFrom(y, (y + value \div y) \div 2, value) ELSE x

approximateSquareRoot(value) ==
    IF value = 0 THEN 0 ELSE newtonFrom(value, (value + 1) \div 2, value)

medianOf(sorted) ==
    IF Len(sorted) % 2 = 0
    THEN (sorted[Len(sorted) \div 2] + sorted[Len(sorted) \div 2 + 1]) \div 2
    ELSE sorted[Len(sorted) \div 2 + 1]

absDiff(amount, average) ==
    IF amount > average THEN amount - average ELSE average - amount

RECURSIVE varianceOf(_, _, _)
varianceOf(amounts, average, n) ==
    IF amounts = <<>> THEN 0
    ELSE (absDiff(Head(amounts), average) * absDiff(Head(amounts), average)) \div n
         + varianceOf(Tail(amounts), average, n)

AmountStatistics(total, average, median, min, max, standardDeviation) ==
    [total |-> total, average |-> average, median |-> median, min |-> min,
     max |-> max, standardDeviation |-> standardDeviation]

calculateAmountStatistics(amounts, decimals) ==
    IF amounts = <<>>
    THEN AmountStatistics(<<"0">>, <<"0">>, <<"0">>, <<"0">>, <<"0">>, <<"0">>)
    ELSE AmountStatistics(
            formatUnits(BigOfValue(Sum(amounts)), decimals),
            formatUnits(BigOfValue(Sum(amounts) \div Len(amounts)), decimals),
            formatUnits(BigOfValue(medianOf(SortAscending(amounts))), decimals),
            formatUnits(BigOfValue(SortAscending(amounts)[1]), decimals),
            formatUnits(BigOfValue(SortAscending(amounts)[Len(amounts)]), decimals),
            formatUnits(BigOfValue(approximateSquareRoot(
                varianceOf(amounts, Sum(amounts) \div Len(amounts), Len(amounts)))), decimals))

validateAmountBatch(amounts, decimals) ==
    [valid |-> validAmounts(amounts, decimals),
     invalid |-> invalidAmounts(amounts, decimals),
     warnings |-> amountWarnings(amounts, decimals),
     statistics |-> calculateAmountStatistics(validAmounts(amounts, decimals), decimals)]

\* bigint division rounds toward zero
TruncDiv(a, b) == IF a < 0 THEN 0 - ((0 - a) \div b) ELSE a \div b

\* the IQR bounds on the sorted amounts
outlierBounds(sorted) ==
    [lower |-> sorted[Len(sorted) \div 4 + 1]
               - TruncDiv((sorted[(3 * Len(sorted)) \div 4 + 1]
                           - sorted[Len(sorted) \div 4 + 1]) * 3, 2),
     upper |-> sorted[(3 * Len(sorted)) \div 4 + 1]
               + TruncDiv((sorted[(3 * Len(sorted)) \div 4 + 1]
                           - sorted[Len(sorted) \div 4 + 1]) * 3, 2)]

RECURSIVE outliersOf(_, _, _)
outliersOf(amounts, lower, upper) ==
    IF amounts = <<>> THEN <<>>
    ELSE (IF Head(amounts) < lower \/ Head(amounts) > upper THEN <<Head(amounts)>> ELSE <<>>)
         \o outliersOf(Tail(amounts), lower, upper)

detectOutliers(amounts) ==
    IF Len(amounts) < 4 THEN [outliers |-> <<>>, lowerBound |-> 0, upperBound |-> 0]
    ELSE [outliers |-> outliersOf(amounts, outlierBounds(SortAscending(amounts)).lower,
                                  outlierBounds(SortAscending(amounts)).upper),
          lowerBound |-> IF outlierBounds(SortAscending(amounts)).lower < 0 THEN 0
                         ELSE outlierBounds(SortAscending(amounts)).lower,
          upperBound |-> outlierBounds(SortAscending(amounts)).upper]

---------------------------------------------------------------------------
(* validators/distribution: validateDistribution *)

\* a check; details holds the numbers or the word its details text gives
ValidationCheck(name, status, severity, details) ==
    [name |-> name, status |-> status, severity |-> severity, details |-> details]

\* a line of errors or warnings: its text and the number it starts with
Line(text, count) == [text |-> text, count |-> count]

\* a fraction left as computed
Fraction(num, den) == [num |-> num, den |-> den]

\* a fraction of [0, 1]
Ratio(num, den) == [num |-> IF num < 0 THEN 0 ELSE IF num > den THEN den ELSE num,
                    den |-> den]

\* the sum of sorted[i] * (i + 1)
RECURSIVE weightedSumOf(_)
weightedSumOf(sorted) ==
    IF sorted = <<>> THEN 0
    ELSE weightedSumOf(SubSeq(sorted, 1, Len(sorted) - 1)) + sorted[Len(sorted)] * Len(sorted)

\* calculateGiniCoefficient: Number(2 w 10000 / (n total)) / 10000 - (n + 1) / n,
\* clamped to [0, 1], as a fraction of denominator 10000 n
calculateGiniCoefficient(amounts) ==
    IF Len(amounts) <= 1 \/ Sum(amounts) = 0 THEN Ratio(0, 1)
    ELSE Ratio(((2 * weightedSumOf(SortAscending(amounts)) * 10000)
                    \div (Len(amounts) * Sum(amounts))) * Len(amounts)
               - 10000 * (Len(amounts) + 1),
               10000 * Len(amounts))

\* Math.max(1, Math.floor(sorted.length * 0.1))
top10PercentCount(n) == IF n \div 10 > 1 THEN n \div 10 ELSE 1

calculateConcentrationRisk(amounts) ==
    IF amounts = <<>> \/ Sum(amounts) = 0 THEN "low"
    ELSE LET top10PercentShare ==
                (Sum(SubSeq(SortDescending(amounts), 1, top10PercentCount(Len(amounts)))) * 100)
                    \div Sum(amounts)
         IN  IF top10PercentShare > 80 THEN "high"
             ELSE IF top10PercentShare > 50 THEN "medium"
             ELSE "low"

DistributionStatistics(recipientCount, amounts, giniCoefficient, concentrationRisk, unique, duplicates) ==
    [recipientCount |-> recipientCount,
     totalAmount |-> amounts.total,
     averageAmount |-> amounts.average,
     medianAmount |-> amounts.median,
     minAmount |-> amounts.min,
     maxAmount |-> amounts.max,
     giniCoefficient |-> giniCoefficient,
     concentrationRisk |-> concentrationRisk,
     uniqueRecipients |-> unique,
     duplicateRecipients |-> duplicates,
     contractAddresses |-> 0,
     eoaAddresses |-> 0]

createEmptyStatistics ==
    DistributionStatistics(0, AmountStatistics(<<"0">>, <<"0">>, <<"0">>, <<"0">>, <<"0">>, <<"0">>),
                           Ratio(0, 1), "low", 0, 0)

DistributionValidationResult(checks, statistics, errors, warnings) ==
    [checks |-> checks, statistics |-> statistics, errors |-> errors, warnings |-> warnings]

\* options.decimals || 18
decimalsOf(options) == IF options.decimals \in {Undefined, 0} THEN 18 ELSE options.decimals

\* count - 1 summed over the duplicates
RECURSIVE totalDuplicateEntries(_)
totalDuplicateEntries(duplicates) ==
    IF duplicates = {} THEN 0
    ELSE LET d == CHOOSE x \in duplicates : TRUE
         IN  d.count - 1 + totalDuplicateEntries(duplicates \ {d})

problematicAddresses(addresses) ==
    Cardinality({k \in 1..Len(addresses) : isProblematicContract(addresses[k])})

\* checks 2 to 7, each on what the batch validators returned
addressFormatCheck(addressValidation) ==
    IF Len(addressValidation.invalid) > 0
    THEN ValidationCheck("Address Format", "failed", "critical", <<Len(addressValidation.invalid)>>)
    ELSE ValidationCheck("Address Format", "passed", "low", <<Len(addressValidation.valid)>>)

duplicateRecipientsCheck(duplicates) ==
    IF Cardinality(duplicates) > 0
    THEN ValidationCheck("Duplicate Recipients", "warning", "medium",
                         <<Cardinality(duplicates), totalDuplicateEntries(duplicates)>>)
    ELSE ValidationCheck("Duplicate Recipients", "passed", "low", <<>>)

problematicAddressesCheck(addresses) ==
    IF problematicAddresses(addresses) > 0
    THEN ValidationCheck("Problematic Addresses", "warning", "high",
                         <<problematicAddresses(addresses)>>)
    ELSE ValidationCheck("Problematic Addresses", "passed", "low", <<>>)

amountValidationCheck(amountValidation) ==
    IF Len(amountValidation.invalid) > 0
    THEN ValidationCheck("Amount Validation", "failed", "critical", <<Len(amountValidation.invalid)>>)
    ELSE ValidationCheck("Amount Validation", "passed", "low", <<Len(amountValidation.valid)>>)

amountOutliersCheck(outlierDetection) ==
    IF Len(outlierDetection.outliers) > 0
    THEN ValidationCheck("Amount Outliers", "warning", "medium", <<Len(outlierDetection.outliers)>>)
    ELSE ValidationCheck("Amount Outliers", "passed", "low", <<>>)

concentrationRiskCheck(concentrationRisk) ==
    ValidationCheck("Concentration Risk",
                    IF concentrationRisk = "high" THEN "warning" ELSE "passed",
                    IF concentrationRisk = "high" THEN "medium" ELSE "low",
                    <<concentrationRisk>>)

\* the errors list, in the order it is pushed to
errorsOf(addressValidation, amountValidation) ==
    (IF Len(addressValidation.invalid) > 0
     THEN <<Line("invalid addresses found", Len(addressValidation.invalid))>>
          \o [k \in 1..Len(addressValidation.invalid) |-> Line("Address: Invalid address format", k)]
     ELSE <<>>)
    \o (IF Len(amountValidation.invalid) > 0
        THEN <<Line("invalid amounts found", Len(amountValidation.invalid))>>
        ELSE <<>>)

\* the warnings list, in the order it is pushed to
warningsOfValidation(addressValidation, duplicates, addresses, amountValidation, outlierDetection) ==
    [k \in 1..Len(addressValidation.warnings) |-> Line(addressValidation.warnings[k].warning, k)]
    \o (IF Cardinality(duplicates) > 0
        THEN <<Line("duplicate addresses found", Cardinality(duplicates))>> ELSE <<>>)
    \o (IF problematicAddresses(addresses) > 0
        THEN <<Line("problematic addresses detected", problematicAddresses(addresses))>>
        ELSE <<>>)
    \o [k \in 1..Len(amountValidation.warnings) |-> Line(amountValidation.warnings[k].warning, k)]
    \o (IF Len(outlierDetection.outliers) > 0
        THEN <<Line("outlier amounts detected", Len(outlierDetection.outliers))>> ELSE <<>>)

\* lines 58-224, on what the batch validators returned
validateNonEmpty(distribution_, addresses, addressValidation, found, amountValidation) ==
    DistributionValidationResult(
        << ValidationCheck("Distribution Size", "passed", "low", <<Len(distribution_)>>),
           addressFormatCheck(addressValidation),
           duplicateRecipientsCheck(found.duplicates),
           problematicAddressesCheck(addresses),
           amountValidationCheck(amountValidation),
           amountOutliersCheck(detectOutliers(amountValidation.valid)),
           concentrationRiskCheck(calculateConcentrationRisk(amountValidation.valid)) >>,
        DistributionStatistics(Len(distribution_), amountValidation.statistics,
                               calculateGiniCoefficient(amountValidation.valid),
                               calculateConcentrationRisk(amountValidation.valid),
                               Len(found.unique), Cardinality(found.duplicates)),
        errorsOf(addressValidation, amountValidation),
        warningsOfValidation(addressValidation, found.duplicates, addresses, amountValidation,
                             detectOutliers(amountValidation.valid)))

addressesOf(distribution_) == [k \in 1..Len(distribution_) |-> distribution_[k].address]
amountsOf(distribution_) == [k \in 1..Len(distribution_) |-> distribution_[k].amount]

\* validateDistribution without the return of line 41: the checks go on after
\* the failed size check
validateWithoutReturn(distribution_, options) ==
    IF Len(distribution_) = 0
    THEN DistributionValidationResult(
            <<ValidationCheck("Distribution Size", "failed", "critical", <<>>)>>
              \o Tail(validateNonEmpty(distribution_, addressesOf(distribution_),
                          validateAddressBatch(addressesOf(distribution_)),
                          findDuplicateAddresses(addressesOf(distribution_)),
                          validateAmountBatch(amountsOf(distribution_), decimalsOf(options))).checks),
            createEmptyStatistics,
            <<Line("Distribution is empty", 0)>>,
            <<>>)
    ELSE validateNonEmpty(distribution_, addressesOf(distribution_),
                          validateAddressBatch(addressesOf(distribution_)),
                          findDuplicateAddresses(addressesOf(distribution_)),
                          validateAmountBatch(amountsOf(distribution_), decimalsOf(options)))

\* validateDistribution of validators/distribution. options.checkContracts
\* and options.provider are not read.
validatorsValidateDistribution(distribution_, options) ==
    IF Len(distribution_) = 0
    THEN DistributionValidationResult(
            <<ValidationCheck("Distribution Size", "failed", "critical", <<>>)>>,
            createEmptyStatistics,
            <<Line("Distribution is empty", 0)>>,
            <<>>)
    ELSE validateNonEmpty(distribution_, addressesOf(distribution_),
                          validateAddressBatch(addressesOf(distribution_)),
                          findDuplicateAddresses(addressesOf(distribution_)),
                          validateAmountBatch(amountsOf(distribution_), decimalsOf(options)))

---------------------------------------------------------------------------
(* The distribution validator: one call of validateDistribution *)

\* most digits of an amount in wei: the statistics are computed on integers
MaxDigits == 8

Written1(form) == [id |-> 1, form |-> form]

ValidatorAddresses ==
    {Lower(i) : i \in 1..NumAddr}
      \cup {Written1(form) : form \in {"mixed", "upper", "badsum", "bare", "short"}}
      \cup {NullAddress}

\* zero, a negative amount, a decimal amount, an exponent, the empty string
OddAmounts == {<<"0">>, <<"-", "1">>, <<"1", ".", "5">>, <<"1", "e", "5">>, <<>>}

ValidatorEntries ==
    {Entry(a, Str1, Undefined) : a \in ValidatorAddresses}
      \cup {Entry(Lower(1), m, Undefined) : m \in {Str2} \cup OddAmounts}

\* one entry per address, all of amount 1 but the last
Skewed(n) == [Regular(n, Str1) EXCEPT ![n].amount = <<"2", "0", "0">>]
SkewedDistributions == {Skewed(n) : n \in 4..MaxEntries}

\* one entry per address, all of amount 1 but the last two
TwoLarge(n) == [Skewed(n) EXCEPT ![n - 1].amount = <<"2", "0", "0">>]
TwoLargeDistributions == {TwoLarge(n) : n \in 11..MaxEntries}

\* two entries whose larger amount is 80.5% and 50.5% of the total
UnevenPairs ==
    { <<Entry(Lower(1), <<"1", "6", "1">>, Undefined), Entry(Lower(2), <<"3", "9">>, Undefined)>>,
      <<Entry(Lower(1), <<"1", "0", "1">>, Undefined), Entry(Lower(2), <<"9", "9">>, Undefined)>> }

\* one entry per address, all of amount 0 but the last
OneHoldsAll(n) == [Regular(n, <<"0">>) EXCEPT ![n].amount = <<"2", "0", "0">>]
OneHoldsAllDistributions == {OneHoldsAll(n) : n \in 2..MaxEntries}

ValidatorDistributions ==
    SeqsUpTo(ValidatorEntries, MaxLen) \cup RegularDistributions \cup SkewedDistributions
        \cup TwoLargeDistributions \cup UnevenPairs \cup OneHoldsAllDistributions

Options(checkContracts, provider, decimals) ==
    [checkContracts |-> checkContracts, provider |-> provider, decimals |-> decimals]

ValidatorOptions ==
    {Options(c, p, d) : c \in BOOLEAN, p \in {NoProvider, Provider({1}, {2})},
                        d \in {Undefined, 0, 2}}

\* every amount, scaled, has at most MaxDigits digits
Fits(distribution_, options) ==
    \A k \in 1..Len(distribution_) :
        Len(validateAmount(Str(distribution_[k].amount), decimalsOf(options)).amount.digits)
            <= MaxDigits

ValidateDistribution(distribution_, options) ==
    /\ validation' = [status |-> "returned", distribution |-> distribution_,
                      options |-> options,
                      result |-> validatorsValidateDistribution(distribution_, options)]
    /\ UNCHANGED <<byteOrder, distribution, format, merkleData, proofCheck, verification, parsed, amountCheck, response, manager, inequality>>

\* one call per behaviour
ValidatorNext ==
    /\ validation.status = "none"
    /\ \E distribution_ \in ValidatorDistributions, options \in ValidatorOptions :
          /\ Fits(distribution_, options)
          /\ ValidateDistribution(distribution_, options)

ValidatorSpec == Init /\ [][ValidatorNext]_vars

---------------------------------------------------------------------------
(* route.ts: POST /api/verify *)

\* a root that is undefined
UndefinedRoot == [type |-> "undefined"]

\* the string of a payload that is 0x and 64 hexadecimal digits
RootText == Text(<<"0xroot">>)

\* /^(?:0x)?[a-fA-F0-9]{64}$/.test(v) for a string of the model, and the root
\* it writes
isRootText(v) == v = RootText
rootOfText(v) == ZeroRoot

\* root.startsWith('0x') ? root.toLowerCase() : `0x${root.toLowerCase()}`
normalizedRoot(root) == [digits |-> root.digits, prefix |-> TRUE, upper |-> FALSE]

\* the DistributionData[] that parseDistributionData returned, as the merkle
\* engine reads it: an address string that is not one of the model's
\* addresses is not 20 bytes long
addressOfKey(k) ==
    CASE k = "0xA1" -> [id |-> 1, form |-> "mixed"]
      [] k = "0xa2" -> [id |-> 2, form |-> "lower"]
      [] k = "0xB3" -> [id |-> 3, form |-> "mixed"]
      [] OTHER -> [id |-> 0, form |-> "short"]

addressOfValue(v) ==
    IF v.type = "string" /\ Len(v.chars) = 1 THEN addressOfKey(v.chars[1])
    ELSE [id |-> 0, form |-> "short"]

indexOfValue(v) ==
    IF v.type = "number" /\ AllDigits(v.text, DecDigits) THEN DigitsValue(v.text, DecDigits)
    ELSE Undefined

distributionOf(entries) ==
    [k \in 1..Len(entries) |->
        Entry(addressOfValue(entries[k].address), entries[k].amount,
              indexOfValue(entries[k].index))]

\* NextResponse.json(body, {status}): the status, the error of an error body,
\* and for a verification result the arguments createVerificationResult was
\* called with and the result
ErrorResponse(code, error) ==
    [code |-> code, error |-> error, distribution |-> <<>>,
     expectedRoot |-> UndefinedRoot, result |-> NoResult]

\* where the handler stands before line 259: it has responded, or it holds
\* the data to parse and the expected root; parseError is the status of the
\* response when parseDistributionData throws (the catch of line 226, or the
\* catch of line 268 in the manual mode)
Responded(code, error) ==
    [kind |-> "responded", response |-> ErrorResponse(code, error), data |-> JsUndefined,
     expectedRoot |-> UndefinedRoot, parseError |-> 0]

ToVerify(data, expectedRoot, parseError) ==
    [kind |-> "verify", response |-> ErrorResponse(0, "none"), data |-> data,
     expectedRoot |-> expectedRoot, parseError |-> parseError]

\* what ipfsManager.fetch gave: the data, or a throw
FetchFails == [type |-> "throws"]

\* lines 30-45
manualMode(body, env) ==
    IF body.type = "ipfs" /\ Truthy(body.ipfsHash)
    THEN (IF env.fetched = FetchFails THEN Responded(500, "error.message")
          ELSE ToVerify(env.fetched, body.merkleRoot, 500))
    ELSE IF body.type = "file" /\ Truthy(body.data)
    THEN ToVerify(body.data, body.merkleRoot, 500)
    ELSE Responded(400, "Invalid manual verification parameters")

\* line 96: the root of the proposal, or the manually provided one
overriddenRoot(body, env) ==
    IF body.manualMerkleRoot # UndefinedRoot THEN normalizedRoot(body.manualMerkleRoot)
    ELSE env.merkleRoot

merkleRootKeys == <<"merkleRoot", "merkle_root", "root", "merkleTreeRoot">>

\* lines 115-127: the first of the keys under which the data holds a root
hasRootKey(data) ==
    \E k \in 1..Len(merkleRootKeys) : isRootText(Get(data, merkleRootKeys[k]))

rootOfData(data) ==
    normalizedRoot(rootOfText(Get(data,
        merkleRootKeys[Min({k \in 1..Len(merkleRootKeys) : isRootText(Get(data, merkleRootKeys[k]))})])))

\* lines 102-139: whether the root is taken from the distribution data
rootFromData(root, env) ==
    /\ root = UndefinedRoot
    /\ env.hasUrl
    /\ env.fetched # FetchFails
    /\ TypeOf(env.fetched) = "object"
    /\ env.fetched # JsNull
    /\ hasRootKey(env.fetched)

\* validateProposalData: a root written 0x and 64 hex digits, and a URL
validateProposalData(root, env) ==
    /\ root # UndefinedRoot
    /\ root.prefix
    /\ env.hasUrl

\* lines 141-255, on the root found; cached: the data was fetched with it
withRoot(root, cached, env) ==
    IF ~validateProposalData(root, env) THEN Responded(400, "Invalid proposal data")
    ELSE IF cached THEN ToVerify(env.fetched, root, 400)
    ELSE IF env.fetched = FetchFails THEN Responded(400, "Failed to fetch distribution data")
    ELSE ToVerify(env.fetched, root, 400)

\* lines 47-255
snapshotMode(body, env) ==
    IF ~env.proposalId THEN Responded(400, "Invalid Snapshot URL format")
    ELSE IF env.proposal = "throws" THEN Responded(500, "error.message")
    ELSE IF rootFromData(overriddenRoot(body, env), env)
    THEN withRoot(rootOfData(env.fetched), TRUE, env)
    ELSE withRoot(overriddenRoot(body, env), FALSE, env)

\* lines 30-256
routed(body, env) ==
    IF body.type = "manual" THEN manualMode(body, env) ELSE snapshotMode(body, env)

NotParsed == [status |-> "none", shapes |-> <<>>, entries |-> <<>>, error |-> NoError]
NotVerified == [thrown |-> FALSE, result |-> NoResult]

\* distribution = parseDistributionData(...)
parsedOf(step) == IF step.kind = "verify" THEN parseDistributionData(step.data) ELSE NotParsed

\* line 259: await createVerificationResult(distribution, expectedRoot, ...)
verifiedOf(step, p, distribution_) ==
    IF step.kind = "verify" /\ p.status = "returned"
    THEN createVerificationResult(distribution_, step.expectedRoot)
    ELSE NotVerified

\* the response: the one already given, the one to a throw of
\* parseDistributionData, the one to a throw of createVerificationResult
\* (the catch of line 268), or the result (line 266)
responseOf(step, p, distribution_, r) ==
    IF step.kind = "responded" THEN step.response
    ELSE IF p.status = "thrown"
    THEN ErrorResponse(step.parseError,
                       IF step.parseError = 400 THEN "Failed to parse distribution data"
                       ELSE "error.message")
    ELSE IF r.thrown THEN ErrorResponse(500, "error.message")
    ELSE [code |-> 200, error |-> "none", distribution |-> distribution_,
          expectedRoot |-> step.expectedRoot, result |-> r.result]

---------------------------------------------------------------------------
(* The route: one request *)

Body(url, type, ipfsHash, data, merkleRoot, manualMerkleRoot) ==
    [url |-> url, type |-> type, ipfsHash |-> ipfsHash, data |-> data,
     merkleRoot |-> merkleRoot, manualMerkleRoot |-> manualMerkleRoot]

\* what the request meets: whether SnapshotClient.extractProposalId finds an
\* id in the url, whether getProposal returns, the root and the presence of a
\* URL in what parseProposal extracts, what the gateways give
Env(proposalId, proposal, merkleRoot, hasUrl, fetched) ==
    [proposalId |-> proposalId, proposal |-> proposal, merkleRoot |-> merkleRoot,
     hasUrl |-> hasUrl, fetched |-> fetched]

OneEntry == Arr(<<Obj(<<"address", "amount">>, <<AddressText("0xA1"), Five>>)>>)

TwoEntries ==
    Arr(<<Obj(<<"address", "amount">>, <<AddressText("0xA1"), Five>>),
          Obj(<<"recipient", "value", "index">>, <<AddressText("0xa2"), Seven, Num(<<"3">>)>>)>>)

RoutePayloads ==
    { OneEntry,
      TwoEntries,
      Obj(<<"0xA1", "0xa2">>, <<Five, Seven>>),
      Obj(<<"claims">>, <<Obj(<<"0xA1">>, <<Obj(<<"amount">>, <<Five>>)>>)>>),
      Obj(<<"merkleRoot", "recipients">>, <<RootText, OneEntry>>),
      Obj(<<"root", "recipients">>, <<RootText, TwoEntries>>),
      Arr(<<Obj(<<"amount">>, <<Five>>)>>),
      Arr(<<>>),
      JsNull }

\* the root of the entries of a payload under a format, written 0x and
\* lowercase
rootOfPayload(data, f) ==
    normalizedRoot(generateMerkleTree(distributionOf(parseDistributionData(data).entries), f).root)

\* a root written without 0x, in uppercase
Unprefixed(root) == [digits |-> root.digits, prefix |-> FALSE, upper |-> TRUE]

RouteRoots == {ZeroRoot, rootOfPayload(OneEntry, "openzeppelin"), rootOfPayload(TwoEntries, "custom")}

ManualBodies ==
    { Body("manual", type, ipfsHash, data, merkleRoot, UndefinedRoot) :
        type \in {"manual", "ipfs", "file"},
        ipfsHash \in {JsUndefined, Text(<<"Qm">>)},
        data \in {JsUndefined, OneEntry, TwoEntries, Arr(<<>>)},
        merkleRoot \in {UndefinedRoot} \cup RouteRoots }

SnapshotBodies ==
    { Body("snapshot", "undefined", JsUndefined, JsUndefined, UndefinedRoot, manualMerkleRoot) :
        manualMerkleRoot \in {UndefinedRoot, Unprefixed(rootOfPayload(OneEntry, "openzeppelin"))} }

ManualEnvs ==
    { Env(proposalId, proposal, rootOfPayload(OneEntry, "openzeppelin"), TRUE, fetched) :
        proposalId \in BOOLEAN, proposal \in {"ok", "throws"},
        fetched \in {FetchFails, OneEntry, TwoEntries} }

SnapshotEnvs ==
    { Env(proposalId, proposal, merkleRoot, hasUrl, fetched) :
        proposalId \in BOOLEAN, proposal \in {"ok", "throws"},
        merkleRoot \in {UndefinedRoot, Unprefixed(ZeroRoot)} \cup RouteRoots,
        hasUrl \in BOOLEAN,
        fetched \in {FetchFails} \cup RoutePayloads }

\* POST(request), lines 9-301
Post(body, env) ==
    /\ \E step \in {routed(body, env)} :
       \E p \in {parsedOf(step)} :
       \E distribution_ \in {distributionOf(p.entries)} :
       \E r \in {verifiedOf(step, p, distribution_)} :
          response' = [status |-> "responded", body |-> body, env |-> env,
                       response |-> responseOf(step, p, distribution_, r)]
    /\ UNCHANGED <<byteOrder, distribution, format, merkleData, proofCheck, verification, parsed, amountCheck, validation, manager, inequality>>

\* one request per behaviour
RouteNext ==
    /\ response.status = "none"
    /\ \/ \E body \in ManualBodies, env \in ManualEnvs : Post(body, env)
       \/ \E body \in SnapshotBodies, env \in SnapshotEnvs : Post(body, env)

RouteSpec == Init /\ [][RouteNext]_vars

(***************************************************************************)
(* lib/integrations/ipfs/gateway.ts: IPFSGatewayManager                    *)
(***************************************************************************)

\* an IPFSGateway; the url stands for the gateway
Gateway(url, priority) == [url |-> url, priority |-> priority]

\* the gateways of a manager built without an argument
DefaultGateways ==
    << Gateway("https://ipfs.io/ipfs/", 1),
       Gateway("https://cloudflare-ipfs.com/ipfs/", 2),
       Gateway("https://gateway.pinata.cloud/ipfs/", 3),
       Gateway("https://dweb.link/ipfs/", 4),
       Gateway("https://w3s.link/ipfs/", 5),
       Gateway("https://ipfs.infura.io/ipfs/", 6),
       Gateway("https://gateway.ipfs.io/ipfs/", 7) >>

CACHE_TTL == 15 * 60 * 1000

\* the argument of the constructor: undefined, or an array of gateways
NoCustomGateways == [given |-> FALSE]
CustomGateways(list) == [given |-> TRUE, list |-> list]

\* a constructor that leaves the gateways in the order it is given them
keepOrder(gateways) == gateways

\* Array.prototype.sort with (a, b) => a.priority - b.priority: stable, so a
\* gateway goes after the gateways of the same priority that precede it
RECURSIVE insertByPriority(_, _)
insertByPriority(sorted, gateway) ==
    IF sorted = <<>> THEN <<gateway>>
    ELSE IF sorted[Len(sorted)].priority - gateway.priority <= 0 THEN Append(sorted, gateway)
    ELSE Append(insertByPriority(SubSeq(sorted, 1, Len(sorted) - 1), gateway), sorted[Len(sorted)])

RECURSIVE sortByPriority(_)
sortByPriority(gateways) ==
    IF gateways = <<>> THEN <<>>
    ELSE insertByPriority(sortByPriority(SubSeq(gateways, 1, Len(gateways) - 1)), gateways[Len(gateways)])

\* the strings fetch is called with: a CID, a URL that holds one, or neither
CidInput(form, cid) == [form |-> form, cid |-> cid]
NoCid == "null"

\* the CID of an input: the input itself when it is a CIDv0 or a CIDv1, the
\* first group of the first pattern that matches a URL, null otherwise
extractCID(input) ==
    IF input.form \in {"cidv0", "cidv1", "ipfs uri", "gateway url"} THEN input.cid ELSE NoCid

\* the cache: Map<string, {data, timestamp}>
Cids == {"QmA", "bafyB"}
NoEntry == [type |-> "absent"]
CacheEntry(data, timestamp) == [type |-> "entry", data |-> data, timestamp |-> timestamp]
EmptyCache == [cid \in Cids |-> NoEntry]

Expired(entry, now) == entry.type = "entry" /\ now - entry.timestamp > CACHE_TTL

\* cleanCache(): every expired entry is deleted
cleanCache(cache, now) ==
    [cid \in Cids |-> IF Expired(cache[cid], now) THEN NoEntry ELSE cache[cid]]

\* addToCache(cid, data)
addToCache(cache, cid, data, now) ==
    cleanCache([cache EXCEPT ![cid] = CacheEntry(data, now)], now)

\* getFromCache(cid): the data of a live entry, null otherwise
getFromCache(cache, cid, now) ==
    IF cache[cid].type = "absent" \/ Expired(cache[cid], now) THEN JsNull ELSE cache[cid].data

\* the cache after getFromCache(cid): an expired entry is deleted
cacheAfterGet(cache, cid, now) ==
    IF Expired(cache[cid], now) THEN [cache EXCEPT ![cid] = NoEntry] ELSE cache

\* what fetch has done: nothing, returned an IPFSResponse, thrown an IPFSError
NoFetchResult == [status |-> "none"]
Returned(data, gateway, cid, attempts) == [status |-> "returned", data |-> data, gateway |-> gateway, cid |-> cid, attempts |-> attempts]
IPFSError(message, cid) == [status |-> "thrown", name |-> "IPFSError", message |-> message, cid |-> cid]

\* what fetchFromGateway does: it returns the data or throws
Fails == [ok |-> FALSE]
Succeeds(data) == [ok |-> TRUE, data |-> data]
Contacted(url, outcome) == [url |-> url, outcome |-> outcome]

(***************************************************************************)
(* The gateway inputs                                                      *)
(***************************************************************************)

MaxFetches == 2
MaxTicks == 2

GatewayConfigs ==
    { NoCustomGateways,
      CustomGateways(<<>>),
      CustomGateways(<<Gateway("b", 2), Gateway("a", 1)>>),
      CustomGateways(<<Gateway("a", 1), Gateway("b", 1), Gateway("c", 0)>>) }

FetchInputs ==
    { CidInput("cidv0", "QmA"), CidInput("ipfs uri", "QmA"), CidInput("cidv1", "bafyB"),
      CidInput("gateway url", "bafyB"), CidInput("text", "") }

\* what a gateway answers with: a JSON object, the JSON number 0, plain text
DataValues == {Obj(<<>>, <<>>), Num(<<"0">>), Str(<<"x">>)}
Outcomes == {Fails} \cup {Succeeds(data) : data \in DataValues}

TickSteps == {1, CACHE_TTL}

(***************************************************************************)
(* GatewaySpec: one manager, its fetches one after the other, the clock    *)
(***************************************************************************)

\* new IPFSGatewayManager(customGateways)
\* what a gateway fetch of a CID stored and when, and whether clearCache was
\* called since
NoStore == [type |-> "none"]
StoredAt(data, at) == [type |-> "stored", data |-> data, at |-> at, cleared |-> FALSE]
Cleared(store) == IF store.type = "stored" THEN [store EXCEPT !.cleared = TRUE] ELSE store

Construct(customGateways) ==
    /\ manager.status = "none"
    /\ manager' = [status |-> "constructed",
                   customGateways |-> customGateways,
                   gateways |-> sortByPriority(IF customGateways.given THEN customGateways.list ELSE DefaultGateways),
                   cache |-> EmptyCache, now |-> 0, ticks |-> 0, calls |-> 0,
                   pc |-> "idle", input |-> CidInput("text", ""), cid |-> NoCid,
                   index |-> 0, attempts |-> 0, errors |-> <<>>,
                   cached |-> JsNull, contacted |-> <<>>, result |-> NoFetchResult,
                   stored |-> [c \in Cids |-> NoStore]]
    /\ UNCHANGED <<byteOrder, distribution, format, merkleData, proofCheck, verification, parsed, amountCheck, validation, response, inequality>>

\* fetch up to its first await: the CID, the cache, the start of the loop
fetchStart(m, input, cid) ==
    IF cid = NoCid
    THEN [m EXCEPT !.input = input, !.cid = cid, !.calls = @ + 1, !.index = 0, !.attempts = 0,
                   !.errors = <<>>, !.contacted = <<>>, !.cached = JsNull,
                   !.result = IPFSError("Invalid IPFS CID or URL", input)]
    ELSE IF Truthy(getFromCache(m.cache, cid, m.now))
    THEN [m EXCEPT !.input = input, !.cid = cid, !.calls = @ + 1, !.index = 0, !.attempts = 0,
                   !.errors = <<>>, !.contacted = <<>>,
                   !.cached = getFromCache(m.cache, cid, m.now),
                   !.cache = cacheAfterGet(m.cache, cid, m.now),
                   !.result = Returned(getFromCache(m.cache, cid, m.now), "cache", cid, 0)]
    ELSE IF m.gateways = <<>>
    THEN [m EXCEPT !.input = input, !.cid = cid, !.calls = @ + 1, !.index = 0, !.attempts = 0,
                   !.errors = <<>>, !.contacted = <<>>,
                   !.cached = getFromCache(m.cache, cid, m.now),
                   !.cache = cacheAfterGet(m.cache, cid, m.now),
                   !.result = IPFSError("Failed to fetch from all IPFS gateways", cid)]
    ELSE [m EXCEPT !.input = input, !.cid = cid, !.calls = @ + 1, !.index = 1, !.attempts = 1,
                   !.errors = <<>>, !.contacted = <<>>,
                   !.cached = getFromCache(m.cache, cid, m.now),
                   !.cache = cacheAfterGet(m.cache, cid, m.now),
                   !.result = NoFetchResult, !.pc = "trying"]

Fetch(input) ==
    /\ manager.status = "constructed"
    /\ manager.pc = "idle"
    /\ manager.calls < MaxFetches
    /\ manager' = fetchStart(manager, input, extractCID(input))
    /\ UNCHANGED <<byteOrder, distribution, format, merkleData, proofCheck, verification, parsed, amountCheck, validation, response, inequality>>

\* fetchFromGateway(gateway, cid) settles: the data is cached and returned,
\* or the error is recorded and the loop goes on; past the last gateway
\* IPFSError is thrown
gatewaySettled(m, gateway, outcome) ==
    IF outcome.ok
    THEN [m EXCEPT !.contacted = Append(@, Contacted(gateway.url, outcome)),
                   !.cache = addToCache(@, m.cid, outcome.data, m.now),
                   !.stored[m.cid] = StoredAt(outcome.data, m.now),
                   !.result = Returned(outcome.data, gateway.url, m.cid, m.attempts),
                   !.pc = "idle"]
    ELSE IF m.index = Len(m.gateways)
    THEN [m EXCEPT !.contacted = Append(@, Contacted(gateway.url, outcome)),
                   !.errors = Append(@, gateway.url),
                   !.result = IPFSError("Failed to fetch from all IPFS gateways", m.cid),
                   !.pc = "idle"]
    ELSE [m EXCEPT !.contacted = Append(@, Contacted(gateway.url, outcome)),
                   !.errors = Append(@, gateway.url),
                   !.index = @ + 1, !.attempts = @ + 1]

GatewaySettles(outcome) ==
    /\ manager.status = "constructed"
    /\ manager.pc = "trying"
    /\ manager' = gatewaySettled(manager, manager.gateways[manager.index], outcome)
    /\ UNCHANGED <<byteOrder, distribution, format, merkleData, proofCheck, verification, parsed, amountCheck, validation, response, inequality>>

\* clearCache()
ClearCache ==
    /\ manager.status = "constructed"
    /\ manager' = [manager EXCEPT !.cache = EmptyCache,
                                  !.stored = [c \in Cids |-> Cleared(@[c])]]
    /\ UNCHANGED <<byteOrder, distribution, format, merkleData, proofCheck, verification, parsed, amountCheck, validation, response, inequality>>

\* Date.now() grows
Tick(step) ==
    /\ manager.status = "constructed"
    /\ manager.ticks < MaxTicks
    /\ manager' = [manager EXCEPT !.now = @ + step, !.ticks = @ + 1]
    /\ UNCHANGED <<byteOrder, distribution, format, merkleData, proofCheck, verification, parsed, amountCheck, validation, response, inequality>>

GatewayNext ==
    \/ \E customGateways \in GatewayConfigs : Construct(customGateways)
    \/ \E input \in FetchInputs : Fetch(input)
    \/ \E outcome \in Outcomes : GatewaySettles(outcome)
    \/ ClearCache
    \/ \E step \in TickSteps : Tick(step)

GatewaySpec == Init /\ [][GatewayNext]_vars

---------------------------------------------------------------------------
(* validators: calculateGiniCoefficient on lists of amounts *)

MaxAmounts == 4

\* the amounts of a list: zero, small ones and a large one
AmountValues == {0, 1, 2, 7}

GiniInputs == SeqsUpTo(AmountValues, MaxAmounts)

\* const gini = calculateGiniCoefficient(amounts)
CalculateGini(amounts) ==
    /\ inequality' = [status |-> "returned", amounts |-> amounts,
                      giniCoefficient |-> calculateGiniCoefficient(amounts)]
    /\ UNCHANGED <<byteOrder, distribution, format, merkleData, proofCheck, verification, parsed, amountCheck, validation, response, manager>>

\* one call per behaviour
GiniNext ==
    /\ inequality.status = "none"
    /\ \E amounts \in GiniInputs : CalculateGini(amounts)

GiniSpec == Init /\ [][GiniNext]_vars

---------------------------------------------------------------------------
(* Claims about the merkle engine (MerkleSpec) *)

\* C1: proof round-trip. After generateMerkleTree(entries, format), every
\* entry e of the tree satisfies verifyProof(e.address, e.amount,
\* proofs[lowercase(e.address)], root, format, e.index) = true, repeated
\* addresses and explicit indexes included.
C1_ProofRoundTrip ==
    (proofCheck.entry # 0
        /\ proofCheck.amount = distribution[proofCheck.entry].amount)
    => (~proofCheck.thrown /\ proofCheck.result)

\* C2: tamper sensitivity. For every entry e of a built tree and every amount
\* whose value differs from e.amount, verifyProof with e's stored proof, the
\* root and e.index returns false.
C2_TamperSensitivity ==
    (proofCheck.entry # 0
        /\ Uint256Of(proofCheck.amount).value
            # Uint256Of(distribution[proofCheck.entry].amount).value)
    => (~proofCheck.thrown /\ ~proofCheck.result)

---------------------------------------------------------------------------
(* Claims about createVerificationResult (VerifySpec) *)

HasFailedCheck(checks) == \E k \in 1..Len(checks) : checks[k].status = "failed"

\* C3: in every result createVerificationResult returns, success is true iff
\* merkleRoot.match is true and no check has status 'failed'; merkleRoot.match
\* is true iff the computed root equals the expected root, letter case aside.
C3_SuccessIffMatchAndNoFailedCheck ==
    verification.status = "returned" =>
        LET r == verification.result
        IN  /\ r.success <=> (r.merkleRoot.match /\ ~HasFailedCheck(r.checks))
            /\ r.merkleRoot.expected = verification.expectedRoot
            /\ r.merkleRoot.match <=>
                 (rootToLowerCase(r.merkleRoot.computed)
                    = rootToLowerCase(verification.expectedRoot))

\* C3 witness: a result whose roots match while a check failed
C3_Witness ==
    /\ verification.status = "returned"
    /\ verification.result.merkleRoot.match
    /\ HasFailedCheck(verification.result.checks)
    /\ ~verification.result.success

\* a 20-byte hex address with 0x, and an amount of decimal digits
WellFormedEntry(e) ==
    /\ e.address.form \in {"lower", "mixed"}
    /\ e.amount # <<>>
    /\ \A k \in 1..Len(e.amount) : e.amount[k] \in {DecDigits[d] : d \in 1..10}

WellFormedDistribution(dist) ==
    Len(dist) > 0 /\ \A k \in 1..Len(dist) : WellFormedEntry(dist[k])

\* C4: for every non-empty valid distribution createVerificationResult
\* returns; its errors list is empty when merkleRoot.match is true, and holds
\* exactly one error, of code MERKLE_ROOT_MISMATCH with a message naming the
\* expected and the computed root, when merkleRoot.match is false.
C4_MismatchIsAResult ==
    (verification.status # "none" /\ WellFormedDistribution(verification.distribution)) =>
        /\ verification.status = "returned"
        /\ LET r == verification.result
           IN  IF r.merkleRoot.match THEN r.errors = <<>>
               ELSE /\ Len(r.errors) = 1
                    /\ r.errors[1].code = "MERKLE_ROOT_MISMATCH"
                    /\ r.errors[1].message.text = "mismatch"
                    /\ r.errors[1].message.expected = verification.expectedRoot
                    /\ r.errors[1].message.computed = r.merkleRoot.computed

\* C4 witness: a valid distribution of two entries against a root that is
\* not its root
C4_Witness ==
    /\ verification.status = "returned"
    /\ WellFormedDistribution(verification.distribution)
    /\ Len(verification.distribution) > 1
    /\ ~verification.result.merkleRoot.match
    /\ Len(verification.result.errors) = 1

\* C5: createVerificationResult on an empty entry sequence does not throw: it
\* returns success = false with a failed critical size check.
C5_EmptyIsAResult ==
    (verification.status # "none" /\ verification.distribution = <<>>) =>
        /\ verification.status = "returned"
        /\ ~verification.result.success
        /\ \E k \in 1..Len(verification.result.checks) :
              /\ verification.result.checks[k].status = "failed"
              /\ verification.result.checks[k].severity = "critical"

\* an address that is not 20 bytes of hex, or an amount that is negative or
\* does not parse as an integer
MalformedEntry(e) ==
    \/ e.address.form = "short"
    \/ ~BigIntOf(e.amount).ok
    \/ e.amount = <<>>
    \/ BigIntOf(e.amount).value < 0

\* C6: for a non-empty distribution holding a malformed entry,
\* createVerificationResult never throws: it returns a result with
\* success = false whose address (resp. amount) validation check failed,
\* critical, with the count of offending entries.
C6_MalformedEntryIsAFailedCheck ==
    (/\ verification.status # "none"
     /\ Len(verification.distribution) > 0
     /\ \E k \in 1..Len(verification.distribution) :
            MalformedEntry(verification.distribution[k])) =>
        /\ verification.status = "returned"
        /\ ~verification.result.success
        /\ \E k \in 1..Len(verification.result.checks) :
              /\ verification.result.checks[k].name
                    \in {"Address Validation", "Amount Validation"}
              /\ verification.result.checks[k].status = "failed"
              /\ verification.result.checks[k].severity = "critical"
              /\ verification.result.checks[k].count > 0

\* the same 64 hex digits with the 0x prefix added or removed
OtherPrefix(root) == [root EXCEPT !.prefix = ~root.prefix]

\* C7: createVerificationResult and verifyMerkleRoot report the same match
\* for an expected root written with 0x and for the same digits without it.
C7_PrefixOptional ==
    verification.status = "returned" =>
        LET other == OtherPrefix(verification.expectedRoot)
        IN  /\ createVerificationResult(verification.distribution, other).result.merkleRoot.match
                = verification.result.merkleRoot.match
            /\ verifyMerkleRoot(verification.distribution, other, NoFormat).success
                = verification.result.merkleRoot.match

\* C8: when expectedRoot is the root generateMerkleTree computes over all the
\* entries under one of the three formats, createVerificationResult reports
\* merkleRoot.match = true, whatever the number of entries.
C8_AllFormatsVerifyAtAnySize ==
    (/\ verification.status # "none"
     /\ \E f \in FormatSet :
            /\ generateMerkleTree(verification.distribution, f).status = "built"
            /\ generateMerkleTree(verification.distribution, f).root
                = verification.expectedRoot) =>
        /\ verification.status = "returned"
        /\ verification.result.merkleRoot.match

---------------------------------------------------------------------------
(* Claims about parseDistributionData (ParseSpec) *)

\* the payload is a record holding a record or a sequence under the key
HoldsContainer(data, key) ==
    /\ data.type = "object"
    /\ \E i \in 1..Len(data.keys) :
          data.keys[i] = key /\ data.vals[i].type \in {"object", "array"}

HoldsSequence(data, key) ==
    /\ data.type = "object"
    /\ \E i \in 1..Len(data.keys) : data.keys[i] = key /\ data.vals[i].type = "array"

HoldsValue(data, key) ==
    /\ data.type = "object"
    /\ \E i \in 1..Len(data.keys) : data.keys[i] = key /\ Truthy(data.vals[i])

MostlyAddressKeys(data) ==
    /\ data.type = "object"
    /\ data.keys # <<>>
    /\ 2 * Cardinality({i \in 1..Len(data.keys) : data.keys[i] \in AddressKeys})
          > Len(data.keys)

\* the first shape, in the order sequence-of-records, claims mapping, nested
\* container (recipients, then distribution), proof-list, root-plus-payload
\* wrapper, address-keyed mapping, whose structural test holds
FirstShape(data) ==
    CASE data.type = "array" -> "array"
      [] OTHER ->
         IF HoldsContainer(data, "claims") THEN "claims"
         ELSE IF HoldsContainer(data, "recipients") THEN "recipients"
         ELSE IF HoldsContainer(data, "distribution") THEN "distribution"
         ELSE IF HoldsSequence(data, "proofs") THEN "proofs"
         ELSE IF HoldsValue(data, "merkleRoot")
                 /\ \E key \in {"recipients", "claims", "distribution", "proofs"} :
                        HoldsValue(data, key)
              THEN "wrapper"
         ELSE IF MostlyAddressKeys(data) THEN "mapping"
         ELSE "none"

\* the payload a nested container or a wrapper unwraps to
InnerPayload(data, shape) ==
    IF shape \in {"recipients", "distribution"} THEN Get(data, shape)
    ELSE OrChain(Props(data, <<"recipients", "claims", "distribution", "proofs">>))

\* the shapes applied from the payload inwards when each level applies its
\* first matching shape
RECURSIVE FirstShapes(_)
FirstShapes(data) ==
    IF FirstShape(data) = "none" THEN <<>>
    ELSE IF FirstShape(data) \in {"recipients", "distribution", "wrapper"}
         THEN <<FirstShape(data)>> \o FirstShapes(InnerPayload(data, FirstShape(data)))
    ELSE <<FirstShape(data)>>

\* no shape matches the payload, or the payload a container unwraps to
NoShapeMatches(shapes) ==
    shapes = <<>> \/ shapes[Len(shapes)] \in {"recipients", "distribution", "wrapper"}

UnsupportedFormatErrors == {"UnsupportedFormat", "NotDistributionData"}

\* C9: parseDistributionData applies exactly the first shape, in the order
\* sequence-of-records, claims mapping, nested container (recipients, then
\* distribution), proof-list, root-plus-payload wrapper, address-keyed
\* mapping, whose structural test holds; an error thrown while that shape is
\* processed is the outcome, with no entries and no later shape tried; when no
\* shape matches, the call fails with an unsupported-format error.
C9_FirstShapeWins ==
    parsed.status # "none" =>
        /\ parsed.shapes = FirstShapes(parsed.data)
        /\ parsed.status = "thrown" => parsed.entries = <<>>
        /\ NoShapeMatches(FirstShapes(parsed.data)) =>
              /\ parsed.status = "thrown"
              /\ parsed.error.name \in UnsupportedFormatErrors

\* C9 holds for every payload but null
FirstShapeWinsExceptNull ==
    (parsed.status # "none" /\ parsed.data # JsNull) =>
        /\ parsed.shapes = FirstShapes(parsed.data)
        /\ parsed.status = "thrown" => parsed.entries = <<>>
        /\ NoShapeMatches(FirstShapes(parsed.data)) =>
              /\ parsed.status = "thrown"
              /\ parsed.error.name \in UnsupportedFormatErrors

\* the element holds a non-empty value under one of the fields address,
\* recipient, account, wallet, to
CarriesAddress(item) ==
    \E i \in 1..Len(item.keys) :
        /\ item.keys[i] \in {"address", "recipient", "account", "wallet", "to"}
        /\ Truthy(item.vals[i])

SequenceOfRecords(data) ==
    /\ data.type = "array"
    /\ \A k \in 1..Len(data.items) : data.items[k].type = "object"

\* C10: for a sequence-of-records payload in which some element carries none
\* of the fields address, recipient, account, wallet, to (an empty or null
\* value is no address), parseDistributionData throws; the error names the
\* index of the first such element and that element's field names, and no
\* entry is yielded, however many other elements are well-formed.
C10_MissingAddressIsAHardError ==
    (/\ parsed.status # "none"
     /\ SequenceOfRecords(parsed.data)
     /\ \E k \in 1..Len(parsed.data.items) : ~CarriesAddress(parsed.data.items[k])) =>
        LET first == Min({k \in 1..Len(parsed.data.items) :
                            ~CarriesAddress(parsed.data.items[k])})
        IN  /\ parsed.status = "thrown"
            /\ parsed.error.name = "MissingAddress"
            /\ parsed.error.index = first - 1
            /\ parsed.error.fields = parsed.data.items[first].keys
            /\ parsed.entries = <<>>

\* C10 witness: a well-formed record followed by a record that has none of the
\* five fields; the error names index 1 and its fields
C10_Witness ==
    /\ parsed.status = "thrown"
    /\ SequenceOfRecords(parsed.data)
    /\ Len(parsed.data.items) > 1
    /\ CarriesAddress(parsed.data.items[1])
    /\ \A i \in 1..Len(parsed.data.items[2].keys) :
          parsed.data.items[2].keys[i] \notin {"address", "recipient", "account", "wallet", "to"}
    /\ parsed.data.items[2].keys # <<>>
    /\ parsed.error = [name |-> "MissingAddress", index |-> 1,
                       fields |-> parsed.data.items[2].keys]
    /\ parsed.entries = <<>>

\* the first of the fields named that the record has with a value other than
\* null, zero and the empty string included; undefined when it has none
RECURSIVE FirstCarried(_, _)
FirstCarried(item, names) ==
    IF names = <<>> THEN JsUndefined
    ELSE IF \E i \in 1..Len(item.keys) :
                item.keys[i] = Head(names) /\ ~IsNullish(item.vals[i])
         THEN item.vals[CHOOSE i \in 1..Len(item.keys) : item.keys[i] = Head(names)]
    ELSE FirstCarried(item, Tail(names))

\* C11: for a sequence-of-records payload parseDistributionData returns, the
\* amount of each entry is the string of the first of the fields amount,
\* value, balance, quantity, tokens its element carries, a field carrying
\* zero counting as carried, and '0' when the element carries none of them;
\* one entry is produced per element.
C11_AmountFromFirstCarriedField ==
    (parsed.status = "returned" /\ SequenceOfRecords(parsed.data)) =>
        /\ Len(parsed.entries) = Len(parsed.data.items)
        /\ \A k \in 1..Len(parsed.entries) :
              parsed.entries[k].amount
                = amountStrOf(FirstCarried(parsed.data.items[k],
                                <<"amount", "value", "balance", "quantity", "tokens">>))

\* the record has the field
HasField(item, name) == \E i \in 1..Len(item.keys) : item.keys[i] = name
FieldOf(item, name) == item.vals[CHOOSE i \in 1..Len(item.keys) : item.keys[i] = name]

\* a payload {claims: {address: {amount, index?}}}
ClaimsMappingPayload(data) ==
    /\ data.type = "object"
    /\ HasField(data, "claims")
    /\ FieldOf(data, "claims").type = "object"
    /\ \A k \in 1..Len(FieldOf(data, "claims").vals) :
          /\ FieldOf(data, "claims").vals[k].type = "object"
          /\ HasField(FieldOf(data, "claims").vals[k], "amount")

\* C12: a payload {claims: {address: {amount, index?}}} normalizes to one
\* entry per key, in enumeration order, with address = the key, amount = the
\* string form of the claim's amount (zero included) and index = the claim's
\* explicit index when present (0 included), else the key's position.
C12_ClaimsMapping ==
    (parsed.status # "none" /\ ClaimsMappingPayload(parsed.data)) =>
        LET claims == FieldOf(parsed.data, "claims")
        IN  /\ parsed.status = "returned"
            /\ Len(parsed.entries) = Len(claims.keys)
            /\ \A k \in 1..Len(claims.keys) :
                  /\ parsed.entries[k].address = Str(<<claims.keys[k]>>)
                  /\ parsed.entries[k].amount = StringOf(FieldOf(claims.vals[k], "amount"))
                  /\ parsed.entries[k].index
                        = IF HasField(claims.vals[k], "index")
                          THEN FieldOf(claims.vals[k], "index")
                          ELSE Num(NatToString(k - 1))

\* the string is a number written with an exponent
ScientificNotation(s) == ExponentMark(s) > 0 /\ ~NumberOf(s).nan /\ NumberOf(s).exp # 0

\* the string is a number written with a fractional part or an exponent
NotIntegerWritten(s) == Includes(s, ".") \/ ScientificNotation(s)

\* C13: amount post-processing is uniform across shapes: whatever shape
\* parseDistributionData applied (sequence-of-records, claims mapping, nested
\* container, proof-list, address-keyed mapping), no entry it returns has an
\* amount written with a fractional part or in scientific notation.
C13_PostProcessingInEveryShape ==
    parsed.status = "returned" =>
        \A k \in 1..Len(parsed.entries) : ~NotIntegerWritten(parsed.entries[k].amount)


---------------------------------------------------------------------------
(* Claims about decimal amounts (ParseSpec) *)

OnePointFive == <<"1", ".", "5">>

\* the warnings a returned entry carries
WarningsOf(entry) == IF "warnings" \in DOMAIN entry THEN entry.warnings ELSE <<>>

\* an element whose amount is the string '1.5'
DecimalAmountItem(item) ==
    /\ TypeOf(item) = "object"
    /\ HasField(item, "amount")
    /\ FieldOf(item, "amount") = Str(OnePointFive)

\* C14: normalizing an entry whose amount is the decimal string '1.5', with 18
\* decimals, raises no error; the entry comes out with the truncated integer
\* amount '1', and a decimal-truncation warning for it is part of what the
\* caller receives: carried by the returned entry, or returned by
\* validateAmount for that amount.
C14_DecimalTruncationWarning ==
    (/\ parsed.status # "none"
     /\ SequenceOfRecords(parsed.data)
     /\ \A k \in 1..Len(parsed.data.items) : CarriesAddress(parsed.data.items[k])
     /\ \E k \in 1..Len(parsed.data.items) : DecimalAmountItem(parsed.data.items[k]))
        => /\ parsed.status = "returned"
           /\ \A k \in 1..Len(parsed.data.items) :
                 DecimalAmountItem(parsed.data.items[k]) =>
                    /\ parsed.entries[k].amount = <<"1">>
                    /\ validateAmount(FieldOf(parsed.data.items[k], "amount"), 18).isValid
                    /\ \/ WarningsOf(parsed.entries[k]) # <<>>
                       \/ validateAmount(FieldOf(parsed.data.items[k], "amount"), 18).warning # "none"

\* the part of C14 the code does satisfy: no error, truncated amount
DecimalIsTruncatedWithoutError ==
    (/\ parsed.status # "none"
     /\ SequenceOfRecords(parsed.data)
     /\ \A k \in 1..Len(parsed.data.items) : CarriesAddress(parsed.data.items[k])
     /\ \E k \in 1..Len(parsed.data.items) : DecimalAmountItem(parsed.data.items[k]))
        => /\ parsed.status = "returned"
           /\ \A k \in 1..Len(parsed.data.items) :
                 DecimalAmountItem(parsed.data.items[k]) =>
                    /\ parsed.entries[k].amount = <<"1">>
                    /\ validateAmount(FieldOf(parsed.data.items[k], "amount"), 18).isValid

\* a '1.5' entry was normalized: returned, truncated, and no warning anywhere
C14_Counterexample ==
    /\ parsed.status = "returned"
    /\ SequenceOfRecords(parsed.data)
    /\ \E k \in 1..Len(parsed.data.items) :
          /\ DecimalAmountItem(parsed.data.items[k])
          /\ parsed.entries[k].amount = <<"1">>
          /\ WarningsOf(parsed.entries[k]) = <<>>
          /\ validateAmount(FieldOf(parsed.data.items[k], "amount"), 18).warning = "none"


---------------------------------------------------------------------------
(* Claims about normalizing twice (ParseSpec) *)

\* the entries of a result, written as a sequence-of-records payload
Reserialized(entries) ==
    Arr([k \in 1..Len(entries) |->
            Obj(<<"address", "amount", "index">>,
                <<entries[k].address, Str(entries[k].amount), entries[k].index>>)])

\* the same address, amount and index, in the same order
SameEntries(a, b) ==
    /\ Len(a) = Len(b)
    /\ \A k \in 1..Len(a) :
          /\ a[k].address = b[k].address
          /\ a[k].amount = b[k].amount
          /\ a[k].index = b[k].index

\* C15: for every sequence-of-records payload parseDistributionData accepts,
\* feeding the output entries back in as a sequence-of-records payload is
\* accepted too and yields entries with the same address, amount and index,
\* in the same order.
C15_NormalizerIdempotent ==
    (parsed.status = "returned" /\ SequenceOfRecords(parsed.data)) =>
        /\ parseDistributionData(Reserialized(parsed.entries)).status = "returned"
        /\ SameEntries(parseDistributionData(Reserialized(parsed.entries)).entries, parsed.entries)

\* the same, for results in which no entry's amount is the empty string
IdempotentOnNonEmptyAmounts ==
    (/\ parsed.status = "returned"
     /\ SequenceOfRecords(parsed.data)
     /\ \A k \in 1..Len(parsed.entries) : parsed.entries[k].amount # <<>>) =>
        /\ parseDistributionData(Reserialized(parsed.entries)).status = "returned"
        /\ SameEntries(parseDistributionData(Reserialized(parsed.entries)).entries, parsed.entries)

\* an accepted payload whose entries come back different the second time
C15_Counterexample ==
    /\ parsed.status = "returned"
    /\ SequenceOfRecords(parsed.data)
    /\ \E k \in 1..Len(parsed.entries) :
          /\ parsed.entries[k].amount = <<>>
          /\ parseDistributionData(Reserialized(parsed.entries)).entries[k].amount = <<"0">>


---------------------------------------------------------------------------
(* Claims about the distribution validators (ValidatorSpec) *)

HasCheck(checks, name) == \E k \in 1..Len(checks) : checks[k].name = name
CheckNamed(checks, name) == checks[CHOOSE k \in 1..Len(checks) : checks[k].name = name]

NonNegativeInteger(amount) == amount # <<>> /\ AllDigits(amount, DecDigits)
PositiveInteger(amount) == NonNegativeInteger(amount) /\ StripLeadingZeros(amount) # <<"0">>

\* a negative integer, or neither an integer nor a decimal number
NegativeOrUnparsable(amount) ==
    \/ Len(amount) > 1 /\ amount[1] = "-" /\ PositiveInteger(Tail(amount))
    \/ ~parseUnits(amount, 18).ok

AllAmounts(distribution_, S) == \A k \in 1..Len(distribution_) : distribution_[k].amount \in S
SomeAmount(distribution_, S) == \E k \in 1..Len(distribution_) : distribution_[k].amount \in S

AmountsDrawn == {Str1, Str2, <<"2", "0", "0">>} \cup OddAmounts

\* the Amount Validation check of the two validateDistribution
\* implementations on the distribution of the last call
AmountValidationOfValidators == CheckNamed(validation.result.checks, "Amount Validation")
AmountValidationOfVerifier ==
    CheckNamed(validateDistribution(validation.distribution), "Amount Validation")

\* C16: zero is a valid amount. For every non-empty distribution whose
\* amounts are all non-negative integer strings, zero included, the Amount
\* Validation check is passed; when some amount is negative or does not
\* parse it is failed with severity critical; and it is failed in no other
\* case. This holds for validateDistribution of validators/distribution and
\* for validateDistribution of merkle/verifier.
C16_ZeroIsAValidAmount ==
    (validation.status = "returned" /\ Len(validation.distribution) > 0) =>
        /\ AllAmounts(validation.distribution, {m \in AmountsDrawn : NonNegativeInteger(m)}) =>
              /\ AmountValidationOfValidators.status = "passed"
              /\ AmountValidationOfVerifier.status = "passed"
        /\ SomeAmount(validation.distribution, {m \in AmountsDrawn : NegativeOrUnparsable(m)}) =>
              /\ AmountValidationOfValidators.status = "failed"
              /\ AmountValidationOfValidators.severity = "critical"
              /\ AmountValidationOfVerifier.status = "failed"
              /\ AmountValidationOfVerifier.severity = "critical"

\* the same for positive amounts in place of non-negative ones
PositiveAmountsAreValid ==
    (validation.status = "returned" /\ Len(validation.distribution) > 0) =>
        /\ AllAmounts(validation.distribution, {m \in AmountsDrawn : PositiveInteger(m)}) =>
              /\ AmountValidationOfValidators.status = "passed"
              /\ AmountValidationOfVerifier.status = "passed"
        /\ SomeAmount(validation.distribution, {m \in AmountsDrawn : NegativeOrUnparsable(m)}) =>
              /\ AmountValidationOfValidators.status = "failed"
              /\ AmountValidationOfValidators.severity = "critical"
              /\ AmountValidationOfVerifier.status = "failed"
              /\ AmountValidationOfVerifier.severity = "critical"

\* validateDistribution of merkle/verifier alone takes zero for valid
VerifierTakesZero ==
    (/\ validation.status = "returned"
     /\ Len(validation.distribution) > 0
     /\ AllAmounts(validation.distribution, {m \in AmountsDrawn : NonNegativeInteger(m)}))
        => AmountValidationOfVerifier.status = "passed"

\* a distribution of non-negative integer amounts, one of them zero, that
\* the validators fail and the verifier passes
C16_Counterexample ==
    /\ validation.status = "returned"
    /\ Len(validation.distribution) > 0
    /\ AllAmounts(validation.distribution, {m \in AmountsDrawn : NonNegativeInteger(m)})
    /\ SomeAmount(validation.distribution, {<<"0">>})
    /\ AmountValidationOfValidators.status = "failed"
    /\ AmountValidationOfValidators.severity = "critical"
    /\ AmountValidationOfVerifier.status = "passed"


CheckNames(checks) == [k \in 1..Len(checks) |-> checks[k].name]

SevenChecks ==
    << "Distribution Size", "Address Format", "Duplicate Recipients", "Problematic Addresses",
       "Amount Validation", "Amount Outliers", "Concentration Risk" >>

\* the statistics record with every number zero
AllZeroStatistics ==
    [recipientCount |-> 0, totalAmount |-> <<"0">>, averageAmount |-> <<"0">>,
     medianAmount |-> <<"0">>, minAmount |-> <<"0">>, maxAmount |-> <<"0">>,
     giniCoefficient |-> [num |-> 0, den |-> 1], concentrationRisk |-> "low",
     uniqueRecipients |-> 0, duplicateRecipients |-> 0,
     contractAddresses |-> 0, eoaAddresses |-> 0]

\* C17: validateDistribution on zero entries returns exactly one check,
\* Distribution Size, failed, critical, with the all-zero statistics record;
\* on one or more entries it returns exactly seven checks, in the order size,
\* address format, duplicates, problematic addresses, amounts, outliers,
\* concentration.
C17_EmptyShortCircuits ==
    validation.status = "returned" =>
        IF Len(validation.distribution) = 0
        THEN /\ Len(validation.result.checks) = 1
             /\ validation.result.checks[1].name = "Distribution Size"
             /\ validation.result.checks[1].status = "failed"
             /\ validation.result.checks[1].severity = "critical"
             /\ validation.result.statistics = AllZeroStatistics
        ELSE CheckNames(validation.result.checks) = SevenChecks

\* validateDistribution was called on zero entries and returned one check
C17_Witness ==
    /\ validation.status = "returned"
    /\ Len(validation.distribution) = 0
    /\ CheckNames(validation.result.checks) = <<"Distribution Size">>

\* validateDistribution was called on entries and returned seven checks,
\* some failed
SevenChecksReached ==
    /\ validation.status = "returned"
    /\ Len(validation.distribution) > 0
    /\ Len(validation.result.checks) = 7
    /\ validation.result.checks[2].status = "failed"
    /\ validation.result.checks[5].status = "failed"


\* what the oracle says of the addresses of the last call
Classified == detectContractAddresses(addressesOf(validation.distribution), validation.options.provider)

\* C18: statistics.contractAddresses and statistics.eoaAddresses are both 0
\* when no provider is supplied; when checkContracts and a provider are
\* supplied they are the numbers of addresses the provider classifies as
\* contract and as externally owned.
C18_ContractCountsFollowOracle ==
    validation.status = "returned" =>
        /\ validation.options.provider = NoProvider =>
              /\ validation.result.statistics.contractAddresses = 0
              /\ validation.result.statistics.eoaAddresses = 0
        /\ (validation.options.checkContracts /\ validation.options.provider # NoProvider) =>
              /\ validation.result.statistics.contractAddresses
                    = Cardinality({c \in Classified : c.isContract})
              /\ validation.result.statistics.eoaAddresses
                    = Cardinality({c \in Classified : ~c.isContract})

\* what the code does: both counts are 0 whatever the options
ContractCountsAreZero ==
    validation.status = "returned" =>
        /\ validation.result.statistics.contractAddresses = 0
        /\ validation.result.statistics.eoaAddresses = 0

\* checkContracts and a provider were supplied, the provider classifies one
\* address as contract and another as externally owned, and both counts are 0
C18_Counterexample ==
    /\ validation.status = "returned"
    /\ validation.options.checkContracts
    /\ validation.options.provider # NoProvider
    /\ \E c \in Classified : c.isContract
    /\ \E c \in Classified : ~c.isContract
    /\ validation.result.statistics.contractAddresses = 0
    /\ validation.result.statistics.eoaAddresses = 0


---------------------------------------------------------------------------
(* Claims about the route (RouteSpec) *)

\* a request for manual mode supplying an IPFS hash, or an inline payload,
\* together with merkleRoot
ManualWithIpfsHash(body) ==
    /\ body.url = "manual"
    /\ Truthy(body.ipfsHash)
    /\ body.data = JsUndefined
    /\ body.merkleRoot # UndefinedRoot

ManualWithData(body) ==
    /\ body.url = "manual"
    /\ Truthy(body.data)
    /\ body.ipfsHash = JsUndefined
    /\ body.merkleRoot # UndefinedRoot

\* the payload of such a request: what the gateways give for the hash, or
\* the inline payload
SuppliedPayload == IF Truthy(response.body.ipfsHash) THEN response.env.fetched ELSE response.body.data

\* the payload is there and parseDistributionData accepts it
PayloadNormalizes ==
    /\ SuppliedPayload # FetchFails
    /\ parseDistributionData(SuppliedPayload).status = "returned"

NormalizedPayload == distributionOf(parseDistributionData(SuppliedPayload).entries)

\* C19: a POST for manual mode that supplies an IPFS hash or an inline JSON
\* payload, together with merkleRoot, is answered with the verification
\* result of the normalized payload against merkleRoot.
C19_ManualVerificationReachable ==
    (/\ response.status = "responded"
     /\ ManualWithIpfsHash(response.body) \/ ManualWithData(response.body)
     /\ PayloadNormalizes
     /\ ~createVerificationResult(NormalizedPayload, response.body.merkleRoot).thrown)
        => /\ response.response.code = 200
           /\ response.response.expectedRoot = response.body.merkleRoot
           /\ response.response.distribution = NormalizedPayload
           /\ response.response.result
                 = createVerificationResult(NormalizedPayload, response.body.merkleRoot).result

\* what the code does: a request of type manual is answered with 400, and
\* the root of a result is the proposal's, the manual override's or the one
\* the distribution data holds, not the merkleRoot of the request
ManualModeIsRejected ==
    response.status = "responded" =>
        /\ response.body.type = "manual" =>
              /\ response.response.code = 400
              /\ response.response.error = "Invalid manual verification parameters"
        /\ response.response.code = 200 =>
              response.response.expectedRoot
                  \in {overriddenRoot(response.body, response.env), normalizedRoot(ZeroRoot)}

\* a request of type manual with an inline payload and its root, answered 400
C19_Counterexample ==
    /\ response.status = "responded"
    /\ response.body.type = "manual"
    /\ ManualWithData(response.body)
    /\ response.body.data = OneEntry
    /\ response.body.merkleRoot = rootOfPayload(OneEntry, "openzeppelin")
    /\ response.response.code = 400

\* the Snapshot mode does verify: a result whose root matches
SnapshotVerifies ==
    /\ response.status = "responded"
    /\ response.response.code = 200
    /\ response.response.result.merkleRoot.match

---------------------------------------------------------------------------
(* Claims about the IPFS gateway manager (GatewaySpec) *)

\* the gateways a manager is configured with, in the order they were given
Configured ==
    IF manager.customGateways.given THEN manager.customGateways.list ELSE DefaultGateways

PriorityOf(url) ==
    (CHOOSE gateway \in {Configured[k] : k \in 1..Len(Configured)} : gateway.url = url).priority

ContactedUrls == {manager.contacted[k].url : k \in 1..Len(manager.contacted)}

\* the gateways contacted so far are contacted once each, by ascending
\* priority, and no gateway left out comes before one of them
ContactedInPriorityOrder ==
    /\ \A i, j \in 1..Len(manager.contacted) :
          i < j => /\ manager.contacted[i].url # manager.contacted[j].url
                   /\ PriorityOf(manager.contacted[i].url) <= PriorityOf(manager.contacted[j].url)
    /\ \A i \in 1..Len(manager.contacted), k \in 1..Len(Configured) :
          Configured[k].url \notin ContactedUrls
             => PriorityOf(manager.contacted[i].url) <= Configured[k].priority

\* a gateway that succeeded is the last one contacted
NoContactAfterSuccess ==
    \A i \in 1..Len(manager.contacted) :
        manager.contacted[i].outcome.ok => i = Len(manager.contacted)

EveryGatewayFailed ==
    /\ Len(manager.contacted) = Len(Configured)
    /\ \A i \in 1..Len(manager.contacted) : ~manager.contacted[i].outcome.ok

\* a fetch that found nothing in the cache has returned what the last
\* gateway contacted answered, with the number of gateways contacted
ReturnedFromFirstSuccess ==
    (manager.result.status = "returned" /\ ~Truthy(manager.cached)) =>
        /\ manager.contacted # <<>>
        /\ manager.contacted[Len(manager.contacted)].outcome.ok
        /\ manager.result.data = manager.contacted[Len(manager.contacted)].outcome.data
        /\ manager.result.gateway = manager.contacted[Len(manager.contacted)].url
        /\ manager.result.cid = extractCID(manager.input)
        /\ manager.result.attempts = Len(manager.contacted)

ThrownOnlyWithoutCidOrGateway ==
    manager.result.status = "thrown" =>
        /\ manager.result.name = "IPFSError"
        /\ \/ extractCID(manager.input) = NoCid /\ manager.contacted = <<>>
           \/ EveryGatewayFailed

\* C20: on a cache miss fetch contacts the gateways one at a time in
\* ascending priority order, returns the data of the first gateway that
\* succeeds with attempts equal to the number of gateways contacted,
\* contacts no gateway after a success, and throws IPFSError only when the
\* input holds no CID or every configured gateway has failed
C20_GatewayFallbackOrdering ==
    manager.status = "constructed" =>
        /\ ContactedInPriorityOrder
        /\ NoContactAfterSuccess
        /\ ReturnedFromFirstSuccess
        /\ ThrownOnlyWithoutCidOrGateway

\* gateways given out of order, the first in priority fails, the second
\* answers
C20_Witness ==
    /\ manager.status = "constructed"
    /\ manager.customGateways.given
    /\ manager.gateways # manager.customGateways.list
    /\ manager.result.status = "returned"
    /\ manager.result.attempts = 2
    /\ Len(manager.contacted) = 2
    /\ ~manager.contacted[1].outcome.ok
    /\ PriorityOf(manager.contacted[1].url) < PriorityOf(manager.contacted[2].url)

\* every gateway of the default list has failed and IPFSError is thrown
AllDefaultGatewaysFailed ==
    /\ manager.status = "constructed"
    /\ ~manager.customGateways.given
    /\ manager.result.status = "thrown"
    /\ Len(manager.contacted) = 7

---------------------------------------------------------------------------
(* Claims about the sorted-pair rule (MerkleSpec) *)

\* every node of every layer of a tree
NodesOf(layers) ==
    UNION {{layers[level][k] : k \in 1..Len(layers[level])} : level \in 1..Len(layers)}

\* one turn of the loop of verifyProof: proof element p folded into hash h
combine(h, p) == reconstruct(h, <<p>>)

SortedPairRule(nodes) ==
    \A a, b \in nodes :
        /\ combine(a, b) = combine(b, a)
        /\ combine(a, b) = hashPair(a, b)
        /\ hashPair(a, b) = hashPair(b, a)

\* C21: sorted-pair commutativity. For all hashes a and b, folding b into a
\* in verifyProof gives the same parent as folding a into b, and it is the
\* parent the tree builder (sortPairs) computes for the pair in either
\* position.
C21_SortedPairCommutativity ==
    merkleData.status = "built" =>
        \A layers \in {createLayers(merkleData.leaves)} : SortedPairRule(NodesOf(layers))

\* a tree of several layers one of whose sibling pairs is hashed right
\* before left, and an entry of it verified with its proof
C21_Witness ==
    /\ merkleData.status = "built"
    /\ Len(merkleData.leaves) >= 3
    /\ \E k \in 1..(Len(merkleData.leaves) - 1) :
          /\ k % 2 = 1
          /\ HashLess(merkleData.leaves[k + 1], merkleData.leaves[k])
          /\ hashPair(merkleData.leaves[k], merkleData.leaves[k + 1])
                = keccak256(merkleData.leaves[k + 1] \o merkleData.leaves[k])
    /\ proofCheck.entry # 0
    /\ proofCheck.result

---------------------------------------------------------------------------
(* Claims about format detection (VerifySpec) *)

\* the order the formats are to be tried in
PreferenceOrder == <<"openzeppelin", "uniswap", "custom">>

\* the tree over the first 10 entries under a format has the expected root,
\* whatever the case either is written in
TrialMatches(sampleData, expectedRoot, fmt) ==
    \E tree \in {generateMerkleTree(SubSeq(sampleData, 1, Min({Len(sampleData), 10})), fmt)} :
        /\ tree.status = "built"
        /\ tree.root.digits = expectedRoot.digits
        /\ tree.root.prefix = expectedRoot.prefix

FirstMatchInOrder(detected, sampleData, expectedRoot) ==
    /\ detected = NoFormat
          <=> \A k \in 1..3 : ~TrialMatches(sampleData, expectedRoot, PreferenceOrder[k])
    /\ \A k \in 1..3 :
          detected = PreferenceOrder[k]
             <=> /\ TrialMatches(sampleData, expectedRoot, PreferenceOrder[k])
                 /\ \A j \in 1..(k - 1) : ~TrialMatches(sampleData, expectedRoot, PreferenceOrder[j])

\* C22: format auto-detection order. detectMerkleFormat builds a tree over
\* the first 10 entries for openzeppelin, then uniswap, then custom, and
\* returns the first of them whose root equals expectedRoot
\* case-insensitively; a trial that throws does not stop the later trials;
\* it returns null exactly when no trial matches.
C22_DetectionOrder ==
    verification.status # "none" =>
        \E detected \in {detectMerkleFormat(verification.distribution, verification.expectedRoot)} :
            FirstMatchInOrder(detected, verification.distribution, verification.expectedRoot)

\* the second format of the order is detected against a root written in
\* uppercase
C22_Witness ==
    /\ verification.status = "returned"
    /\ verification.expectedRoot.upper
    /\ Len(verification.distribution) >= 2
    /\ detectMerkleFormat(verification.distribution, verification.expectedRoot) = "uniswap"

\* more entries than the sample: the root of the whole distribution is
\* given and no format is detected
SampleIsNotTheDistribution ==
    /\ verification.status = "returned"
    /\ Len(verification.distribution) > 10
    /\ detectMerkleFormat(verification.distribution, verification.expectedRoot) = NoFormat
    /\ verification.expectedRoot # ZeroRoot

\* the codes of the warnings made from the checks of validateDistribution
CheckWarningCodes ==
    {"DISTRIBUTION_NOT_EMPTY", "ADDRESS_VALIDATION", "AMOUNT_VALIDATION", "DUPLICATE_CHECK",
     "TOTAL_DISTRIBUTION"}

\* a call that returned and whose detection matched no format
DetectionFailed ==
    /\ verification.status = "returned"
    /\ detectMerkleFormat(verification.distribution, verification.expectedRoot) = NoFormat

ComputedWithCustom ==
    \E tree \in {generateMerkleTree(verification.distribution, "custom")} :
        /\ tree.status = "built"
        /\ verification.result.merkleRoot.computed = tree.root

RecordsDetectionFailure ==
    \E k \in 1..Len(verification.result.warnings) :
        verification.result.warnings[k].code \notin CheckWarningCodes

\* C23: undetermined format is recoverable and reported. When no format
\* hint is given and detection matches no format, the root is computed with
\* custom and the warnings of the verification result record that format
\* detection failed.
C23_DetectionFailureIsReported ==
    DetectionFailed => (ComputedWithCustom /\ RecordsDetectionFailure)

\* what the code does: the root is computed with custom, and every warning
\* of a result is made from a check of the distribution
FallsBackToCustomSilently ==
    /\ DetectionFailed => ComputedWithCustom
    /\ verification.status = "returned" => ~RecordsDetectionFailure

\* one well-formed entry against the zero root: no format matches, the
\* result has the custom root and no warning at all
C23_Counterexample ==
    /\ DetectionFailed
    /\ Len(verification.distribution) = 1
    /\ verification.expectedRoot = ZeroRoot
    /\ ComputedWithCustom
    /\ verification.result.warnings = <<>>

---------------------------------------------------------------------------
(* Claims about the index of a leaf (MerkleSpec) *)

\* the index field of the entry at position k (0-based position k - 1): the
\* explicit index when there is one, the position otherwise
IndexField(dist, k) == IF dist[k].index = Undefined THEN k - 1 ELSE dist[k].index

\* the leaf verifyProof starts from when it is given the index e.index
VerifyLeaf(e, fmt) == generateLeaf(e, IF e.index = Undefined THEN 0 ELSE e.index, fmt).hash

\* C24: under uniswap the leaf generateMerkleTree hashes for an entry uses
\* the entry's index field, the explicit index when the payload supplied
\* one and its position otherwise, and that is the index verifyProof hashes
\* when it is given e.index.
C24_LeafUsesIndexField ==
    (merkleData.status = "built" /\ format = "uniswap") =>
        \A k \in 1..Len(distribution) :
            /\ merkleData.leaves[k]
                  = generateLeaf(distribution[k], IndexField(distribution, k), "uniswap").hash
            /\ merkleData.leaves[k] = VerifyLeaf(distribution[k], "uniswap")

\* what the code does: the leaf is hashed with the position, whatever the
\* index field holds
LeafUsesPosition ==
    (merkleData.status = "built" /\ format = "uniswap") =>
        \A k \in 1..Len(distribution) :
            merkleData.leaves[k] = generateLeaf(distribution[k], k - 1, "uniswap").hash

\* one entry with the explicit index 1: the tree hashes it with index 0,
\* verifyProof with index 1
C24_Counterexample ==
    /\ merkleData.status = "built"
    /\ format = "uniswap"
    /\ Len(distribution) = 1
    /\ distribution[1].index = 1
    /\ merkleData.leaves[1] # VerifyLeaf(distribution[1], "uniswap")
    /\ proofCheck.entry = 1
    /\ proofCheck.amount = distribution[1].amount
    /\ ~proofCheck.result

\* an entry without index past the first position: the tree hashes it with
\* its position, verifyProof with 0
PositionIsNotPassedOn ==
    /\ merkleData.status = "built"
    /\ format = "uniswap"
    /\ \E k \in 2..Len(distribution) :
          /\ distribution[k].index = Undefined
          /\ merkleData.leaves[k] # VerifyLeaf(distribution[k], "uniswap")

---------------------------------------------------------------------------
(* Claims about amounts in scientific notation (ParseSpec) *)

MantissaOf(s) == SubSeq(s, 1, ExponentMark(s) - 1)
ExponentOf(s) == SignedDigits(SubSeq(s, ExponentMark(s) + 1, Len(s)))
WholeDigits(s) == BeforeDot(MantissaOf(s))
FractionDigits(s) ==
    IF Includes(MantissaOf(s), ".")
    THEN SubSeq(MantissaOf(s), Len(WholeDigits(s)) + 2, Len(MantissaOf(s)))
    ELSE <<>>

\* digits, an optional fraction, e or E and a signed exponent
WrittenScientific(s) ==
    /\ ExponentMark(s) > 1
    /\ AllDigits(WholeDigits(s), DecDigits)
    /\ AllDigits(FractionDigits(s), DecDigits)
    /\ WholeDigits(s) \o FractionDigits(s) # <<>>
    /\ ExponentOf(s).ok

\* the decimal digits of the floor of digits * 10^shift
ShiftedDigits(digits, shift) ==
    IF shift >= 0 THEN StripLeadingZeros(digits \o Zeros(shift))
    ELSE IF Len(digits) + shift <= 0 THEN <<"0">>
    ELSE StripLeadingZeros(SubSeq(digits, 1, Len(digits) + shift))

FlooredDigits(s) ==
    ShiftedDigits(WholeDigits(s) \o FractionDigits(s),
                  (IF ExponentOf(s).neg THEN 0 - DigitsValue(ExponentOf(s).digits, DecDigits)
                   ELSE DigitsValue(ExponentOf(s).digits, DecDigits)) - Len(FractionDigits(s)))

\* the amount field the normalizer reads of an element
AmountRead(item) == OrChain(Props(item, AmountFields))

ScientificAmountItem(item) ==
    /\ item.type = "object"
    /\ AmountRead(item).type = "string"
    /\ WrittenScientific(AmountRead(item).chars)

\* C25: scientific-notation flattening. For every amount written in
\* scientific notation ('1e3', '1.5e3', '2.5E2') the amount
\* parseDistributionData yields is the digits-only decimal string of the
\* floor of the amount's numeric value.
C25_ScientificNotationFlattening ==
    (parsed.status = "returned" /\ SequenceOfRecords(parsed.data)) =>
        \A k \in 1..Len(parsed.entries) :
            ScientificAmountItem(parsed.data.items[k]) =>
                /\ AllDigits(parsed.entries[k].amount, DecDigits)
                /\ parsed.entries[k].amount = FlooredDigits(AmountRead(parsed.data.items[k]).chars)

\* what the code does: a mantissa without fraction and a value below 10^21
\* is flattened; with a fraction the amount is cut at the point before the
\* exponent is looked for
FlattensWholeMantissaOnly ==
    (parsed.status = "returned" /\ SequenceOfRecords(parsed.data)) =>
        \A k \in 1..Len(parsed.entries) :
            ScientificAmountItem(parsed.data.items[k]) =>
                IF FractionDigits(AmountRead(parsed.data.items[k]).chars) # <<>>
                   \/ Includes(AmountRead(parsed.data.items[k]).chars, ".")
                THEN parsed.entries[k].amount = WholeDigits(AmountRead(parsed.data.items[k]).chars)
                ELSE IF Len(FlooredDigits(AmountRead(parsed.data.items[k]).chars)) <= 21
                THEN parsed.entries[k].amount = FlooredDigits(AmountRead(parsed.data.items[k]).chars)
                ELSE ~AllDigits(parsed.entries[k].amount, DecDigits)

\* '1.5e3' yields '1', not '1500'
C25_Counterexample ==
    /\ parsed.status = "returned"
    /\ SequenceOfRecords(parsed.data)
    /\ \E k \in 1..Len(parsed.entries) :
          /\ ScientificAmountItem(parsed.data.items[k])
          /\ AmountRead(parsed.data.items[k]).chars = <<"1", ".", "5", "e", "3">>
          /\ FlooredDigits(AmountRead(parsed.data.items[k]).chars) = <<"1", "5", "0", "0">>
          /\ parsed.entries[k].amount = <<"1">>

\* '1e22' yields '1e+22', which is not written in digits only
LargeExponentKeepsNotation ==
    /\ parsed.status = "returned"
    /\ SequenceOfRecords(parsed.data)
    /\ \E k \in 1..Len(parsed.entries) :
          /\ AmountRead(parsed.data.items[k]) = Text(<<"1", "e", "2", "2">>)
          /\ parsed.entries[k].amount = <<"1", "e", "+", "2", "2">>

\* '2e3' yields '2000'
WholeMantissaIsFlattened ==
    /\ parsed.status = "returned"
    /\ SequenceOfRecords(parsed.data)
    /\ \E k \in 1..Len(parsed.entries) :
          /\ AmountRead(parsed.data.items[k]) = Text(<<"2", "e", "3">>)
          /\ parsed.entries[k].amount = <<"2", "0", "0", "0">>

---------------------------------------------------------------------------
(* Claims about outliers, concentration and inequality (ValidatorSpec) *)

\* the amounts the statistics of the last call are computed on
ValidAmountsOfCall ==
    validAmounts(amountsOf(validation.distribution), decimalsOf(validation.options))

\* the quartiles of the claim on the amounts sorted ascending (0-based
\* positions floor(n/4) and floor(3n/4))
FirstQuartile(sorted) == sorted[(Len(sorted) \div 4) + 1]
ThirdQuartile(sorted) == sorted[((3 * Len(sorted)) \div 4) + 1]

\* below Q1 - 1.5 IQR or above Q3 + 1.5 IQR, without rounding
IsOutlier(amount, sorted) ==
    \/ 2 * amount < 2 * FirstQuartile(sorted) - 3 * (ThirdQuartile(sorted) - FirstQuartile(sorted))
    \/ 2 * amount > 2 * ThirdQuartile(sorted) + 3 * (ThirdQuartile(sorted) - FirstQuartile(sorted))

OutlierRule(amounts, check) ==
    IF Len(amounts) < 4
    THEN /\ detectOutliers(amounts).outliers = <<>>
         /\ detectOutliers(amounts).lowerBound = 0
         /\ detectOutliers(amounts).upperBound = 0
         /\ check.status = "skipped"
    ELSE /\ \A k \in 1..Len(amounts) :
               IsOutlier(amounts[k], SortAscending(amounts))
                  <=> \E j \in 1..Len(detectOutliers(amounts).outliers) :
                         detectOutliers(amounts).outliers[j] = amounts[k]
         /\ (check.status = "warning" /\ check.severity = "medium")
               <=> \E k \in 1..Len(amounts) : IsOutlier(amounts[k], SortAscending(amounts))

\* C26: IQR outlier detection. With fewer than 4 entries no amount is an
\* outlier, the bounds are empty and the Amount Outliers check has status
\* 'skipped'; with n >= 4 entries Q1 = sorted[floor(n/4)],
\* Q3 = sorted[floor(3n/4)], IQR = Q3 - Q1, an amount is an outlier iff it
\* is below Q1 - 1.5 IQR or above Q3 + 1.5 IQR, and the check is a warning
\* (medium) iff at least one outlier exists.
C26_OutlierDetection ==
    (validation.status = "returned" /\ Len(validation.distribution) > 0) =>
        \E amounts \in {ValidAmountsOfCall} :
            OutlierRule(amounts, CheckNamed(validation.result.checks, "Amount Outliers"))

\* what the code does: the rule of the claim from 4 amounts on, and a
\* passed check, never a skipped one, below 4
FewAmountsPass ==
    (validation.status = "returned" /\ Len(validation.distribution) > 0) =>
        \E amounts \in {ValidAmountsOfCall} :
            /\ Len(amounts) >= 4
                  => OutlierRule(amounts, CheckNamed(validation.result.checks, "Amount Outliers"))
            /\ Len(amounts) < 4
                  => /\ detectOutliers(amounts).outliers = <<>>
                     /\ CheckNamed(validation.result.checks, "Amount Outliers").status = "passed"
            /\ \A k \in 1..Len(validation.result.checks) :
                  validation.result.checks[k].status # "skipped"

\* one entry of amount 1: the Amount Outliers check is passed
C26_Counterexample ==
    /\ validation.status = "returned"
    /\ Len(validation.distribution) = 1
    /\ validation.distribution[1].amount = Str1
    /\ CheckNamed(validation.result.checks, "Amount Outliers").status = "passed"

\* five amounts or more, one of them an outlier: the check is a warning
OutlierIsWarned ==
    /\ validation.status = "returned"
    /\ Len(ValidAmountsOfCall) >= 5
    /\ \E k \in 1..Len(ValidAmountsOfCall) :
          IsOutlier(ValidAmountsOfCall[k], SortAscending(ValidAmountsOfCall))
    /\ CheckNamed(validation.result.checks, "Amount Outliers").status = "warning"

\* max(1, ceil(n / 10))
TopTenthCount(n) == IF (n + 9) \div 10 > 1 THEN (n + 9) \div 10 ELSE 1

\* the sum of the TopTenthCount largest amounts
TopTenthTotal(amounts) == Sum(SubSeq(SortDescending(amounts), 1, TopTenthCount(Len(amounts))))

\* the risk of the claim: the share is top / total, compared without rounding
ClaimedRisk(top, total) ==
    IF 100 * top > 80 * total THEN "high"
    ELSE IF 100 * top > 50 * total THEN "medium"
    ELSE "low"

ConcentrationRule(amounts, risk, check) ==
    /\ risk = ClaimedRisk(TopTenthTotal(amounts), Sum(amounts))
    /\ check.status = "warning" <=> risk = "high"

\* C27: concentration risk. Over n amounts with positive total, the share
\* is the sum of the max(1, ceil(n/10)) largest amounts divided by the
\* total; the risk is high iff share > 80%, medium iff 50% < share <= 80%,
\* low otherwise, and the Concentration Risk check is a warning iff the risk
\* is high.
C27_ConcentrationRisk ==
    (validation.status = "returned" /\ Len(validation.distribution) > 0) =>
        \E amounts \in {ValidAmountsOfCall} :
            Sum(amounts) > 0 =>
                ConcentrationRule(amounts, validation.result.statistics.concentrationRisk,
                                  CheckNamed(validation.result.checks, "Concentration Risk"))

\* what the code does: the floor(n/10) largest amounts, at least one, and
\* the share in whole percents, rounded down
FloorTenthAndWholePercents ==
    (validation.status = "returned" /\ Len(validation.distribution) > 0) =>
        \E amounts \in {ValidAmountsOfCall} :
            Sum(amounts) > 0 =>
              \E share \in {(100 * Sum(SubSeq(SortDescending(amounts), 1,
                                              IF Len(amounts) \div 10 > 1
                                              THEN Len(amounts) \div 10 ELSE 1)))
                                \div Sum(amounts)} :
                /\ validation.result.statistics.concentrationRisk
                      = (IF share > 80 THEN "high" ELSE IF share > 50 THEN "medium" ELSE "low")
                /\ CheckNamed(validation.result.checks, "Concentration Risk").status = "warning"
                      <=> validation.result.statistics.concentrationRisk = "high"

\* eleven amounts, two of them 200 and nine 1: the two largest hold 97% but
\* the risk reported is low
C27_Counterexample ==
    /\ validation.status = "returned"
    /\ validation.distribution = TwoLarge(11)
    /\ TopTenthCount(11) = 2
    /\ ClaimedRisk(TopTenthTotal(ValidAmountsOfCall), Sum(ValidAmountsOfCall)) = "high"
    /\ validation.result.statistics.concentrationRisk = "low"
    /\ CheckNamed(validation.result.checks, "Concentration Risk").status = "passed"

\* amounts 161 and 39: the share is 80.5% but the risk reported is medium
HalfPercentIsDropped ==
    /\ validation.status = "returned"
    /\ Len(validation.distribution) = 2
    /\ ValidAmountsOfCall = <<161, 39>>
    /\ validation.result.statistics.concentrationRisk = "medium"

\* ten amounts or fewer, the largest above 81% of the total: high, warning
HighRiskIsWarned ==
    /\ validation.status = "returned"
    /\ Len(validation.distribution) \in 5..10
    /\ validation.result.statistics.concentrationRisk = "high"
    /\ CheckNamed(validation.result.checks, "Concentration Risk").status = "warning"

---------------------------------------------------------------------------
(* Claims about the Gini coefficient (GiniSpec, ValidatorSpec) *)

AllEqual(amounts) == \A i, j \in 1..Len(amounts) : amounts[i] = amounts[j]

InUnitRange(ratio) == ratio.den > 0 /\ 0 <= ratio.num /\ ratio.num <= ratio.den

\* C28: Gini range and zero cases. For every list of non-negative amounts,
\* calculateGiniCoefficient returns a value in [0, 1], and returns exactly 0
\* when there is at most one amount, when the total is 0, or when all
\* amounts are equal.
C28_GiniRangeAndZeroCases ==
    inequality.status = "returned" =>
        /\ InUnitRange(inequality.giniCoefficient)
        /\ (\/ Len(inequality.amounts) <= 1
            \/ Sum(inequality.amounts) = 0
            \/ AllEqual(inequality.amounts)) => inequality.giniCoefficient.num = 0

\* three equal positive amounts: 10000 * 4 / 3 is rounded down to 13333 and
\* 1.3333 - 4/3 is below zero before the clamp
C28_Witness ==
    /\ inequality.status = "returned"
    /\ Len(inequality.amounts) = 3
    /\ AllEqual(inequality.amounts)
    /\ Sum(inequality.amounts) > 0
    /\ (2 * weightedSumOf(SortAscending(inequality.amounts)) * 10000)
           \div (3 * Sum(inequality.amounts)) = 13333
    /\ inequality.giniCoefficient.num = 0

\* several amounts, all zero
ZeroTotalOfSeveral ==
    /\ inequality.status = "returned"
    /\ Len(inequality.amounts) >= 2
    /\ Sum(inequality.amounts) = 0
    /\ inequality.giniCoefficient.num = 0

\* unequal amounts give a coefficient strictly inside the range
UnequalIsPositive ==
    /\ inequality.status = "returned"
    /\ ~AllEqual(inequality.amounts)
    /\ 0 < inequality.giniCoefficient.num
    /\ inequality.giniCoefficient.num < inequality.giniCoefficient.den

\* entry k holds a positive amount and every other entry is written 0
HoldsEntireTotal(dist, k) ==
    /\ dist[k].amount # <<"0">>
    /\ \A j \in 1..Len(dist) : j # k => dist[j].amount = <<"0">>

\* ratio is (n - 1) / n within 1 / 10000, the rounding of the formula
NearUpperBoundary(ratio, n) ==
    /\ (ratio.num * n - (n - 1) * ratio.den) * 10000 <= ratio.den * n
    /\ ((n - 1) * ratio.den - ratio.num * n) * 10000 <= ratio.den * n

\* C29: Gini upper boundary. For a distribution of n >= 2 entries in which
\* one entry holds the entire total and the other n - 1 entries are zero,
\* the giniCoefficient that validateDistribution reports is (n - 1) / n
\* within the rounding of the formula.
C29_GiniUpperBoundary ==
    (/\ validation.status = "returned"
     /\ Len(validation.distribution) >= 2
     /\ \E k \in 1..Len(validation.distribution) : HoldsEntireTotal(validation.distribution, k)
     /\ Len(ValidAmountsOfCall) >= 1) =>
        NearUpperBoundary(validation.result.statistics.giniCoefficient,
                          Len(validation.distribution))

\* what the code does: the zero amounts are not valid amounts, the
\* coefficient is computed over the one amount left and is 0
ZeroAmountsAreLeftOut ==
    (/\ validation.status = "returned"
     /\ Len(validation.distribution) >= 2
     /\ \E k \in 1..Len(validation.distribution) : HoldsEntireTotal(validation.distribution, k)
     /\ Len(ValidAmountsOfCall) >= 1) =>
        /\ Len(ValidAmountsOfCall) = 1
        /\ validation.result.statistics.giniCoefficient.num = 0
        /\ validation.result.statistics.recipientCount = Len(validation.distribution)

\* amounts 0 and 200: 1/2 by the claim, 0 reported
C29_Counterexample ==
    /\ validation.status = "returned"
    /\ validation.distribution = OneHoldsAll(2)
    /\ ValidAmountsOfCall = <<200>>
    /\ validation.result.statistics.giniCoefficient.num = 0
    /\ ~NearUpperBoundary(validation.result.statistics.giniCoefficient, 2)

\* the function itself, given the zeros, returns (n - 1) / n
FunctionReachesBoundary ==
    \A n \in 2..MaxEntries :
        \A amounts \in {[k \in 1..n |-> IF k = n THEN 200 ELSE 0]} :
            NearUpperBoundary(calculateGiniCoefficient(amounts), n)

---------------------------------------------------------------------------
(* Claims about the gateway cache (GatewaySpec) *)

\* a step of fetch(cidOrUrl) up to its first await
IsFetchStep == manager.status = "constructed" /\ manager'.calls = manager.calls + 1

\* at most CACHE_TTL has passed since the store and clearCache was not called
FreshStore(store, now) == ~store.cleared /\ now - store.at <= CACHE_TTL

\* the fetch returns the stored data from the cache and contacts no gateway
IsCacheHit(m, store) ==
    /\ m.pc = "idle"
    /\ m.result = Returned(store.data, "cache", m.cid, 0)
    /\ m.contacted = <<>>

\* the fetch goes to the gateways
GoesToGateways(m) ==
    /\ m.pc = "trying"
    /\ m.index = 1
    /\ m.result = NoFetchResult

\* C30: cache hit iff fresh. After fetch(cid) has succeeded through a gateway
\* with any data value, a later fetch of the same cid returns that data with
\* gateway 'cache' and attempts 0 and contacts no gateway if and only if at
\* most 15 minutes have passed since it was stored and clearCache was not
\* called in between; otherwise the gateways are contacted again and an
\* expired entry is never returned.
C30_CacheHitIffFresh ==
    [][(IsFetchStep /\ manager'.cid # NoCid /\ manager.stored[manager'.cid].type = "stored") =>
          /\ IsCacheHit(manager', manager.stored[manager'.cid])
                <=> FreshStore(manager.stored[manager'.cid], manager.now)
          /\ ~FreshStore(manager.stored[manager'.cid], manager.now) => GoesToGateways(manager')]_vars

\* what the code does: a fresh entry is a hit only when its data is truthy
HitIffFreshAndTruthy ==
    [][(IsFetchStep /\ manager'.cid # NoCid /\ manager.stored[manager'.cid].type = "stored") =>
          /\ IsCacheHit(manager', manager.stored[manager'.cid])
                <=> (/\ FreshStore(manager.stored[manager'.cid], manager.now)
                     /\ Truthy(manager.stored[manager'.cid].data))
          /\ ~IsCacheHit(manager', manager.stored[manager'.cid]) => GoesToGateways(manager')]_vars

\* the data 0 was stored, it is fresh and not cleared, and the second fetch
\* of the CID is at its first gateway
C30_Counterexample ==
    /\ manager.status = "constructed"
    /\ manager.calls = 2
    /\ manager.cid # NoCid
    /\ manager.stored[manager.cid].type = "stored"
    /\ manager.stored[manager.cid].data = Num(<<"0">>)
    /\ FreshStore(manager.stored[manager.cid], manager.now)
    /\ GoesToGateways(manager)
    /\ manager.contacted = <<>>

\* an object was stored exactly CACHE_TTL ago and the second fetch is a hit
HitAtTheLimit ==
    /\ manager.status = "constructed"
    /\ manager.calls = 2
    /\ manager.cid # NoCid
    /\ manager.stored[manager.cid].type = "stored"
    /\ manager.now - manager.stored[manager.cid].at = CACHE_TTL
    /\ IsCacheHit(manager, manager.stored[manager.cid])

\* an object was stored more than CACHE_TTL ago, the cache was not cleared,
\* and the second fetch is at its first gateway
ExpiredGoesToGateways ==
    /\ manager.status = "constructed"
    /\ manager.calls = 2
    /\ manager.cid # NoCid
    /\ manager.stored[manager.cid].type = "stored"
    /\ Truthy(manager.stored[manager.cid].data)
    /\ ~manager.stored[manager.cid].cleared
    /\ manager.now - manager.stored[manager.cid].at > CACHE_TTL
    /\ GoesToGateways(manager)
    /\ manager.contacted = <<>>

\* an object was stored, the cache was cleared at once, and the second fetch
\* is at its first gateway
ClearedGoesToGateways ==
    /\ manager.status = "constructed"
    /\ manager.calls = 2
    /\ manager.cid # NoCid
    /\ manager.stored[manager.cid].type = "stored"
    /\ Truthy(manager.stored[manager.cid].data)
    /\ manager.stored[manager.cid].cleared
    /\ manager.now = manager.stored[manager.cid].at
    /\ GoesToGateways(manager)
    /\ manager.contacted = <<>>

====
